---- MODULE Spec2Model ----
(***************************************************************************)
(* USB relay controller (kyrie2014/UsbRelay).                              *)
(*                                                                         *)
(* Each part is modelled as a state machine under its own specification:   *)
(*   Spec            : the hardware arbiter, relay/server/task_manager.py  *)
(*                     (RelayTaskManager) on top of                        *)
(*                     relay/hardware/serial_comm.py and protocol.py;      *)
(*   RecSpec         : the recovery controller,                            *)
(*                     relay/controllers/recovery.py                       *)
(*                     (DeviceRecoveryController.execute).                 *)
(*   BindSpec        : the binding engine,                                 *)
(*                     relay/controllers/initializer.py                    *)
(*                     (DeviceInitializer), one engine;                    *)
(*   SaveSpec        : two engines in DeviceInitializer._save_binding;     *)
(*   CodecSpec       : the frame builders of relay/hardware/protocol.py;   *)
(*   ChanSpec        : relay/hardware/serial_comm.py                       *)
(*                     (SerialCommunicator) called on its own;             *)
(*   CliSpec         : relay/client.py (RelayClient.send_request);         *)
(*   SilentSpec      : the arbiter with fair steps of its own and clients  *)
(*                     that may never send;                                *)
(*   BindFairSpec    : the binding engine with fair steps of its own.      *)
(* Python strings are sequences of one-character strings, so that hex      *)
(* rendering, split and str(list) are computed and not assumed.            *)
(***************************************************************************)
EXTENDS Integers, Sequences, FiniteSets, TLC

\* ------------------------------------------------------------------ bounds
\* Number of client connections that reach the arbiter in one run.
MaxConns == 3
\* Largest max_attempts value handed to the recovery loop.
MaxAttempts == 3
\* Calls made on one SerialCommunicator.
MaxCalls == 3

\* ------------------------------------------------- relay/constants.py
RELAY_DISCONNECT_MSG == 0
RELAY_CONNECT_MSG == 1
RELAY_DISCONNECT_MSG_SEC == 2
RELAY_CONNECT_MSG_SEC == 3
RELAY_GET_STATE_MSG == 4
RELAY_SET_STATE_MSG == 5

\* ------------------------------------------- relay/hardware/protocol.py
FRAME_HEAD == 126
FRAME_LENGTH == 7
FRAME_END == 85
FRAME_RESPONSE == 255
FRAME_SUCCESS == 0
CMD_CONTROL == 33
CMD_ALL == 64
CMD_USB == 16
CMD_OFF == 0
CMD_ON == 255

\* x ^ y on naturals, bit by bit (a function, so that its arguments are
\* values when it is applied).
BitXor[x \in Nat, y \in Nat] ==
    IF x = 0 THEN y
    ELSE IF y = 0 THEN x
    ELSE (((x % 2) + (y % 2)) % 2) + (2 * BitXor[x \div 2, y \div 2])

\* reduce(lambda x, y: x ^ y, data_list, 0)
RECURSIVE calculate_xor(_)
calculate_xor(data_list) ==
    IF data_list = <<>> THEN 0
    ELSE BitXor[calculate_xor(SubSeq(data_list, 1, Len(data_list) - 1)),
                data_list[Len(data_list)]]

HexDigits == <<"0", "1", "2", "3", "4", "5", "6", "7",
               "8", "9", "a", "b", "c", "d", "e", "f">>

\* '%02x' % b for a byte b: two lowercase hex digits.
Hex2(b) == <<HexDigits[(b \div 16) + 1], HexDigits[(b % 16) + 1]>>

\* ' '.join('%02x' % b for b in data_list): character i of the result is
\* a digit of byte (i + 2) \div 3, or the joining blank when 3 divides i.
bytes_to_hex_string(data_list) ==
    IF data_list = <<>> THEN <<>>
    ELSE [i \in 1 .. 3 * Len(data_list) - 1 |->
             IF i % 3 = 0 THEN " " ELSE Hex2(data_list[(i + 2) \div 3])[i % 3]]

\* Variant of build_basic_frame whose checksum is taken before the state
\* byte is in the frame.
build_basic_frame_XorBeforeState(index, mode, state) ==
    LET frame == <<FRAME_HEAD, FRAME_LENGTH, index, mode>>
    IN  frame \o <<state, calculate_xor(frame), FRAME_END>>

build_basic_frame(index, mode, state) ==
    LET frame == <<FRAME_HEAD, FRAME_LENGTH, index, mode, state>>
    IN  frame \o <<calculate_xor(frame), FRAME_END>>

\* Variant of build_usb_on_by_value that announces the length of the
\* seven-byte frames.
build_usb_on_by_value_ShortLen(hub_value) ==
    LET frame == <<FRAME_HEAD, FRAME_LENGTH, CMD_CONTROL, hub_value, CMD_USB, CMD_ON>>
    IN  frame \o <<calculate_xor(frame), FRAME_END>>

build_usb_on_by_value(hub_value) ==
    LET frame == <<FRAME_HEAD, 8, CMD_CONTROL, hub_value, CMD_USB, CMD_ON>>
    IN  frame \o <<calculate_xor(frame), FRAME_END>>

build_usb_off_by_value(hub_value) ==
    LET frame == <<FRAME_HEAD, 8, CMD_CONTROL, hub_value, CMD_USB, CMD_OFF>>
    IN  frame \o <<calculate_xor(frame), FRAME_END>>

build_usb_on_by_index(port_index) ==
    build_basic_frame(port_index, CMD_ALL, CMD_ON)

build_usb_off_by_index(port_index) ==
    build_basic_frame(port_index, CMD_ALL, CMD_OFF)

\* build_success_response(param), lines 152-168: the only builder that
\* returns the hex string instead of the list of bytes.
build_success_response(param) ==
    LET frame == <<FRAME_HEAD, FRAME_RESPONSE, FRAME_LENGTH, param, FRAME_SUCCESS>>
    IN  bytes_to_hex_string(frame \o <<calculate_xor(frame), FRAME_END>>)

\* Variant of build_get_port_states whose literal repeats the head byte as
\* its checksum.
build_get_port_states_HeadAsXor ==
    <<FRAME_HEAD, FRAME_LENGTH, 6, 0, 0, 126, FRAME_END>>

build_get_port_states == <<FRAME_HEAD, FRAME_LENGTH, 6, 0, 0, 127, FRAME_END>>

\* Variant of build_set_port_state that puts the value before the port.
build_set_port_state_ValueFirst(port_index, value) ==
    LET frame == <<FRAME_HEAD, FRAME_LENGTH, 32, value, port_index>>
    IN  frame \o <<calculate_xor(frame), FRAME_END>>

build_set_port_state(port_index, value) ==
    LET frame == <<FRAME_HEAD, FRAME_LENGTH, 32, port_index, value>>
    IN  frame \o <<calculate_xor(frame), FRAME_END>>

\* ---------------------------------------------------- Python str helpers
\* s.split(sep) for a one-character separator: always at least one piece;
\* piece k is what lies between separator k - 1 and separator k.
split(s, sep) ==
    LET at == {i \in 1 .. Len(s) : s[i] = sep}
        n == Cardinality(at) + 1
        \* position of the k-th separator; 0 before the first piece and
        \* Len(s) + 1 after the last
        pos(k) == IF k = 0 THEN 0
                  ELSE IF k = n THEN Len(s) + 1
                  ELSE CHOOSE i \in at : Cardinality({j \in at : j < i}) = k - 1
    IN  [k \in 1 .. n |-> SubSeq(s, pos(k - 1) + 1, pos(k) - 1)]

\* xs[lo:hi] with 0 <= lo <= hi (Python slice, clipped to the length).
Slice(xs, lo, hi) ==
    LET h == IF hi < Len(xs) THEN hi ELSE Len(xs)
    IN  IF lo >= h THEN <<>> ELSE SubSeq(xs, lo + 1, h)

\* str(list_of_str): "['aa', 'bb']", and "[]" for the empty list.
RECURSIVE PyReprItems(_)
PyReprItems(xs) ==
    IF xs = <<>> THEN <<>>
    ELSE IF Len(xs) = 1 THEN <<"'">> \o xs[1] \o <<"'">>
    ELSE <<"'">> \o xs[1] \o <<"'", ",", " ">> \o PyReprItems(Tail(xs))

PyStr(xs) == <<"[">> \o PyReprItems(xs) \o <<"]">>

StrOK == <<"O", "K">>
StrKO == <<"K", "O">>

\* ------------------------------------- relay/hardware/serial_comm.py
\* receive_data: hex rendering of what readall() returned, '' unless more
\* than one byte was read.
receive_data(output) ==
    IF Len(output) > 1 THEN bytes_to_hex_string(output) ELSE <<>>

\* Variant of get_all_port_states that cuts the reply one token early.
get_all_port_states_OneTokenEarly(response) ==
    IF response # <<>> THEN Slice(split(response, " "), 3, 8) ELSE <<>>

\* Variant of get_all_port_states whose slice is one token longer.
get_all_port_states_SixTokens(response) ==
    IF response # <<>> THEN Slice(split(response, " "), 4, 10) ELSE <<>>

\* get_all_port_states: response.split(' ')[4:9] if response else []
get_all_port_states(response) ==
    IF response # <<>> THEN Slice(split(response, " "), 4, 9) ELSE <<>>

\* usb_off/usb_on/usb_off_by_value/usb_on_by_value/set_port_state and
\* get_all_port_states each build one frame and hand it to execute_command.
usb_off(port_index) == build_usb_off_by_index(port_index)
usb_on(port_index) == build_usb_on_by_index(port_index)
usb_off_by_value(hub_value) == build_usb_off_by_value(hub_value)
usb_on_by_value(hub_value) == build_usb_on_by_value(hub_value)
set_port_state(port_index, hub_value) == build_set_port_state(port_index, hub_value)

\* ------------------------------------------------ inputs of the arbiter
Conns == 1 .. MaxConns
KnownMsgs == {RELAY_DISCONNECT_MSG, RELAY_CONNECT_MSG, RELAY_DISCONNECT_MSG_SEC,
              RELAY_CONNECT_MSG_SEC, RELAY_GET_STATE_MSG, RELAY_SET_STATE_MSG}
\* Message kinds outside the closed enum.
UnknownMsgs == {9}
\* Device.__init__(index=6): the index a Device built from a hub value carries.
DEVICE_DEFAULT_INDEX == 6
\* Device.__init__(value=0): the value a Device built from a port index carries.
DEVICE_DEFAULT_VALUE == 0
\* Port indexes and hub values carried by the sample tasks.
TaskIndexes == {2, 6}
TaskValues == {0, 26}

Mk(k, m, i, v) == [kind |-> k, message |-> m, index |-> i, value |-> v]
NoPayload == Mk("none", 0, 0, 0)
\* Tasks as the clients build them: Task(Device(sn, index=i), m) for the
\* by-index kinds (and for a kind outside the enum), Task(Device(sn, value=v), m)
\* for the by-value kinds, Task(Device(sn), m) for the state query,
\* Task(Device(sn, i, v), m) for a binding.
Tasks ==
    {Mk("task", m, i, DEVICE_DEFAULT_VALUE) :
        m \in {RELAY_DISCONNECT_MSG, RELAY_CONNECT_MSG} \cup UnknownMsgs,
        i \in TaskIndexes}
    \cup {Mk("task", m, DEVICE_DEFAULT_INDEX, v) :
        m \in {RELAY_DISCONNECT_MSG_SEC, RELAY_CONNECT_MSG_SEC}, v \in TaskValues}
    \cup {Mk("task", RELAY_GET_STATE_MSG, DEVICE_DEFAULT_INDEX, DEVICE_DEFAULT_VALUE)}
    \cup {Mk("task", RELAY_SET_STATE_MSG, i, v) : i \in TaskIndexes, v \in TaskValues}
\* What recv(4096) + pickle.loads can meet: nothing (peer closed), bytes on
\* which pickle.loads raises an Exception (no pickle at all, a truncated
\* one, ..), a pickle whose load raises SystemExit (a BaseException: the
\* pickle names a callable that exits, such as sys.exit), a pickled object
\* that is not a Task, a pickled Task.
Payloads ==
    {Mk("empty", 0, 0, 0), Mk("garbage", 0, 0, 0), Mk("exit", 0, 0, 0),
     Mk("nottask", 0, 0, 0)}
    \cup Tasks

IsKnownTask(p) == p.kind = "task" /\ p.message \in KnownMsgs

BoardFrame(body) == body \o <<calculate_xor(body), FRAME_END>>

\* Raw byte strings the board may have ready when readall() is called.
BoardReplies ==
    { <<>>,
      <<FRAME_HEAD>>,
      BoardFrame(<<FRAME_HEAD, FRAME_RESPONSE, FRAME_LENGTH, 6, FRAME_SUCCESS>>),
      BoardFrame(<<FRAME_HEAD, FRAME_RESPONSE, 11, 6, 0, 26, 0, 0, 27>>) }

\* ----------------------------------- relay/server/task_manager.py
\* _process_task, first half: the frame the dispatch chain hands to the
\* serial channel for a Task, <<>> when the chain reaches the final else.
process_task_frame(task) ==
    IF task.message = RELAY_DISCONNECT_MSG THEN usb_off(task.index)
    ELSE IF task.message = RELAY_CONNECT_MSG THEN usb_on(task.index)
    ELSE IF task.message = RELAY_SET_STATE_MSG
         THEN set_port_state(task.index, task.value)
    ELSE IF task.message = RELAY_GET_STATE_MSG THEN build_get_port_states
    ELSE IF task.message = RELAY_DISCONNECT_MSG_SEC
         THEN usb_off_by_value(task.value)
    ELSE IF task.message = RELAY_CONNECT_MSG_SEC
         THEN usb_on_by_value(task.value)
    ELSE <<>>

\* Variant of the dispatch whose result starts out as 'OK', so that an
\* unknown kind is answered 'OK'.
process_task_result_DefaultOK(task, response) ==
    IF task.message = RELAY_GET_STATE_MSG
    THEN PyStr(get_all_port_states(response))
    ELSE StrOK

\* _process_task, second half: the value returned once execute_command has
\* returned `response` (the hex string of the board's reply).
process_task_result(task, response) ==
    IF task.message = RELAY_GET_STATE_MSG
    THEN PyStr(get_all_port_states(response))
    ELSE IF task.message \in KnownMsgs THEN StrOK
    ELSE StrKO

\* Default of RelayTaskManager.__init__(backlog=5), handed to listen().
SERVER_BACKLOG == 5

VARIABLES
    \* ---- arbiter (RelayTaskManager)
    srv,        \* where start()/_handle_connection stands
    running,    \* self._running
    gen,        \* self._task_generator: "none", "suspended", "running", "done"
    genResp,    \* the generator's local `response`
    serialOpen, \* self.serial.is_open
    backlog,    \* connections waiting in the listen queue, oldest first
    cur,        \* connection being handled, 0 when none
    connSt,     \* per connection: NEW, QUEUED, ACCEPTED .. CLOSED
    nResp,      \* per connection: responses sent on it
    payload,    \* what recv + pickle.loads produced for cur; once a payload
                \* has stopped the server, that payload
    frame,      \* frame written to the serial port for cur
    reply,      \* hex string execute_command returned for cur
    sent,       \* response sent on cur
    hwBusy,     \* frames written to the port that no readall() has followed
    nPairs,     \* completed write/read pairs
    nKnown,     \* closed connections that carried a known-kind Task
    envFault,   \* the channel was closed, or the hardware raised, before
                \* cur's exchange could finish
    \* ---- recovery controller (DeviceRecoveryController)
    rpc,        \* where execute() stands
    hub,        \* self.hub_value, 0 when unresolved (None or 0)
    maxAtt,     \* self.config.max_recovery_attempts
    attempt,    \* loop variable of the `for attempt in range(..)` in progress
    polls,      \* loop variable of wait_for_adb
    evLog,      \* what execute() did to the outside, in order: relay requests,
                \* ADB server restarts, and the ADB state each attempt read
    result,     \* "none" while running, then "True", "False" or "raised"
    firstRead,  \* ADB state read by execute()'s own is_adb_connected()
    preReads,   \* ADB states read before the first relay request was sent
    lastRead,   \* ADB state read last
    invRet,     \* what _recover_invalid_device returned: "none" while it has
                \* not returned (or was not called), then "True" or "False"
    store,      \* the binding file JPORTS.PKL as _recover_invalid_device finds it
    \* ---- binding engine (DeviceInitializer)
    bpc,        \* where initialize() / bind_device() / release_device() stands
    op,         \* the call in progress: kind, port and force arguments
    hub_value,  \* self.hub_value after initialize(), 0 when unresolved
    relay_port_states, \* self.relay_port_states
    phase,      \* which step of bind_device runs _test_port_connection
    todo,       \* ports the current step has still to try, in order
    pport,      \* `port` of the _test_port_connection in progress
    times,      \* `times` of the _test_port_connection in progress
    probeAtt,   \* its loop variable `attempt`
    reqLog,     \* relay requests the call in progress has sent, in order
    bindResult, \* "none" while running, then "True", "False" or "raised"
    flashing,   \* the flashing process ResearchDownload.exe: "none" (not
                \* started), "running" or "exited"
    flashAbsent,\* a _check_process_exists poll of this call returned False
    pkl_file,   \* the binding file JPORTS.PKL: exists, is a file of 0 bytes
                \* (truncated), and the entries of the dict pickled in it
    pkl0,       \* pkl_file as it was when the call in progress started
    writes,     \* entries the call in progress has dumped, in order
    loadFailed, \* a pickle.load of the call in progress raised
    spc,        \* per engine: where its _save_binding stands: "idle",
                \* "load", "open", "dump" (the file is open for writing),
                \* "done"
    devices,    \* per engine: the local dict `devices`
    saveArg,    \* per engine: the (hub_value, relay_port) being saved; the
                \* hub_value 0 stands for an unresolved one, None included
    \* ---- library calls checked on their own
    codec,      \* a ProtocolFrameBuilder call: its arguments and its result
    chan,       \* a SerialCommunicator: its port, the wire, the call running
    cli         \* a RelayClient.send_request call: its socket and its result

srvVars == <<srv, running, gen, genResp, serialOpen, backlog, cur, connSt, nResp,
             payload, frame, reply, sent, hwBusy, nPairs, nKnown, envFault>>
recVars == <<rpc, hub, maxAtt, attempt, polls, evLog, result, firstRead,
             preReads, lastRead, invRet, store>>
probeVars == <<phase, todo, pport, times, probeAtt>>
saveVars == <<pkl_file, writes, loadFailed, spc, devices, saveArg>>
bindVars == <<bpc, op, hub_value, relay_port_states, probeVars, reqLog,
              bindResult, flashing, flashAbsent, pkl0, saveVars>>
libVars == <<codec, chan, cli>>
vars == <<srvVars, recVars, bindVars, libVars>>

curVars == <<payload, frame, reply, sent>>
genVars == <<gen, genResp>>
hwVars == <<serialOpen, hwBusy, nPairs>>
queueVars == <<backlog, cur>>

\* State after RelayTaskManager.__init__: serial opened, socket listening,
\* no generator yet, _running False.
SrvInit ==
    /\ srv = "INIT"
    /\ running = FALSE
    /\ gen = "none"
    /\ genResp = StrKO
    /\ serialOpen = TRUE
    /\ backlog = <<>>
    /\ cur = 0
    /\ connSt = [c \in Conns |-> "NEW"]
    /\ nResp = [c \in Conns |-> 0]
    /\ payload = NoPayload
    /\ frame = <<>>
    /\ reply = <<>>
    /\ sent = <<>>
    /\ hwBusy = 0
    /\ nPairs = 0
    /\ nKnown = 0
    /\ envFault = FALSE

\* RelayConfig.max_recovery_attempts as a controller is built with.
max_recovery_attempts == 3

\* The recovery controller at rest (not part of the arbiter's runs).
RecIdle ==
    /\ rpc = "idle"
    /\ hub = 0
    /\ maxAtt = max_recovery_attempts
    /\ attempt = 0
    /\ polls = 0
    /\ evLog = <<>>
    /\ result = "none"
    /\ firstRead = "none"
    /\ preReads = {}
    /\ lastRead = "none"
    /\ invRet = "none"
    /\ store = [kind |-> "absent", hub |-> 0, port |-> 0]

\* Serial numbers of the devices on this host; engine e binds serial e.
Serials == {"A", "B"}
\* A serial number without an entry in the dict.
NoEntry == <<>>
\* devices = {}
EmptyDict == [s \in Serials |-> NoEntry]
NoFile == [exists |-> FALSE, truncated |-> FALSE, ent |-> EmptyDict]
\* JPORTS.PKL holding the pickle of dict d.
FileOf(d) == [exists |-> TRUE, truncated |-> FALSE, ent |-> d]
\* JPORTS.PKL as open(.., 'wb') leaves it until something is dumped into it:
\* 0 bytes, on which pickle.load raises EOFError.
EmptiedFile == [exists |-> TRUE, truncated |-> TRUE, ent |-> EmptyDict]
NoOp == [kind |-> "none", port |-> 0, force |-> FALSE]

\* No ProtocolFrameBuilder, SerialCommunicator or RelayClient call is being
\* followed (the arbiter, recovery and binding runs abstract them).
LibIdle ==
    /\ codec = [pc |-> "idle"]
    /\ chan = [pc |-> "idle"]
    /\ cli = [pc |-> "idle"]

\* The binding engine at rest (not part of the arbiter's or recovery's runs).
BindIdle ==
    /\ bpc = "idle"
    /\ op = NoOp
    /\ hub_value = 0
    /\ relay_port_states = <<>>
    /\ phase = "none"
    /\ todo = <<>>
    /\ pport = 0
    /\ times = 0
    /\ probeAtt = 0
    /\ reqLog = <<>>
    /\ bindResult = "none"
    /\ flashing = "none"
    /\ flashAbsent = FALSE
    /\ pkl_file = NoFile
    /\ pkl0 = NoFile
    /\ writes = <<>>
    /\ loadFailed = FALSE
    /\ spc = [e \in Serials |-> "idle"]
    /\ devices = [e \in Serials |-> EmptyDict]
    /\ saveArg = [e \in Serials |-> <<0, 0>>]

\* A client connects; the kernel queues the connection until accept().
Connect(c) ==
    /\ srv # "STOPPED"
    /\ connSt[c] = "NEW"
    /\ Len(backlog) < SERVER_BACKLOG
    /\ connSt' = [connSt EXCEPT ![c] = "QUEUED"]
    /\ backlog' = Append(backlog, c)
    /\ UNCHANGED <<srv, running, genVars, hwVars, cur, nResp, curVars, nKnown,
                   envFault, recVars, bindVars, libVars>>

\* start(), up to the first pass of `while self._running`.
Start ==
    /\ srv = "INIT"
    /\ ~running
    /\ running' = TRUE
    /\ srv' = "accept"
    /\ UNCHANGED <<genVars, hwVars, queueVars, connSt, nResp, curVars, nKnown,
                   envFault, recVars, bindVars, libVars>>

\* stop(): the fields it resets.
stop ==
    /\ running' = FALSE
    /\ gen' = "none"
    /\ serialOpen' = FALSE
    /\ srv' = "STOPPED"

\* stop() called on a manager that was never started (directly, or through
\* __exit__ / __del__): the socket and the serial port are closed. A later
\* start() fails in accept() on the socket that is None and runs stop()
\* again, which changes nothing.
StopUnstarted ==
    /\ srv = "INIT"
    /\ stop
    /\ UNCHANGED <<genResp, hwBusy, nPairs, queueVars, connSt, nResp, curVars,
                   nKnown, envFault, recVars, bindVars, libVars>>

\* connection, address = self.socket.accept()
Accept ==
    /\ srv = "accept"
    /\ running
    /\ backlog # <<>>
    /\ cur' = Head(backlog)
    /\ backlog' = Tail(backlog)
    /\ connSt' = [connSt EXCEPT ![Head(backlog)] = "ACCEPTED"]
    /\ srv' = "recv"
    /\ envFault' = ~serialOpen
    /\ UNCHANGED <<running, genVars, hwVars, nResp, curVars, nKnown, recVars, bindVars, libVars>>

\* accept() raises socket.error: the loop breaks and start() runs stop().
AcceptError ==
    /\ srv = "accept"
    /\ running
    /\ stop
    /\ UNCHANGED <<genResp, hwBusy, nPairs, queueVars, connSt, nResp, curVars,
                   nKnown, envFault, recVars, bindVars, libVars>>

\* data = connection.recv(4096); `if not data: return`
Recv ==
    /\ srv = "recv"
    /\ \E p \in Payloads :
          /\ payload' = p
          /\ srv' = IF p.kind = "empty" THEN "close" ELSE "loads"
    /\ UNCHANGED <<running, genVars, hwVars, queueVars, connSt, nResp, frame,
                   reply, sent, nKnown, envFault, recVars, bindVars, libVars>>

\* task = pickle.loads(data). An Exception lands in the except clauses of
\* lines 185-188. SystemExit is no Exception: it passes them, the finally of
\* line 190 closes the connection, start() catches neither (lines 213, 218)
\* and its finally runs stop(): the server has stopped.
Loads ==
    /\ srv = "loads"
    /\ CASE payload.kind = "garbage" ->
               /\ srv' = "close"
               /\ UNCHANGED <<connSt, running, gen, serialOpen, hwBusy, cur,
                              envFault>>
         [] payload.kind = "exit" ->
               /\ stop
               /\ connSt' = [connSt EXCEPT ![cur] = "CLOSED"]
               /\ cur' = 0
               /\ UNCHANGED hwBusy
               /\ envFault' = FALSE
         [] OTHER ->
               /\ srv' = "gen"
               /\ connSt' = [connSt EXCEPT ![cur] = "DECODED"]
               /\ UNCHANGED <<running, gen, serialOpen, hwBusy, cur, envFault>>
    /\ UNCHANGED <<genResp, nPairs, backlog, nResp, curVars, nKnown,
                   recVars, bindVars, libVars>>

\* if self._task_generator is None: create it and next() it. The generator
\* body runs to its first `yield response` only while serial.is_open;
\* otherwise it returns and next() raises StopIteration.
GenInit ==
    /\ srv = "gen"
    /\ IF gen = "none"
       THEN IF serialOpen
            THEN /\ gen' = "suspended"
                 /\ genResp' = StrKO
                 /\ srv' = "send"
            ELSE /\ gen' = "done"
                 /\ srv' = "close"
                 /\ UNCHANGED genResp
       ELSE /\ srv' = "send"
            /\ UNCHANGED genVars
    /\ UNCHANGED <<running, hwVars, queueVars, connSt, nResp, curVars, nKnown,
                   envFault, recVars, bindVars, libVars>>

\* Variant of GenSend in which send(task) hands back what the generator held
\* before the task is processed.
GenSend_YieldsPrevious ==
    /\ srv = "send"
    /\ IF gen = "done"
       THEN /\ srv' = "close"
            /\ UNCHANGED <<genVars, connSt>>
       ELSE /\ gen' = "suspended"
            /\ connSt' = [connSt EXCEPT ![cur] = "DISPATCHED"]
            /\ srv' = "respond"
            /\ UNCHANGED genResp
    /\ UNCHANGED <<running, hwVars, queueVars, nResp, curVars, nKnown, envFault,
                   recVars, bindVars, libVars>>

\* response = self._task_generator.send(task): the generator resumes in
\* _process_task; an exhausted generator raises StopIteration instead.
GenSend ==
    /\ srv = "send"
    /\ IF gen = "done"
       THEN /\ srv' = "close"
            /\ UNCHANGED <<genVars, connSt>>
       ELSE /\ gen' = "running"
            /\ connSt' = [connSt EXCEPT ![cur] = "DISPATCHED"]
            /\ IF payload.kind # "task"
               THEN \* task.message raises AttributeError: response = 'KO'
                    /\ genResp' = StrKO
                    /\ srv' = "loop"
               ELSE IF process_task_frame(payload) = <<>>
               THEN /\ genResp' = process_task_result(payload, <<>>)
                    /\ srv' = "loop"
               ELSE /\ srv' = "write"
                    /\ UNCHANGED genResp
    /\ UNCHANGED <<running, hwVars, queueVars, nResp, curVars, nKnown, envFault,
                   recVars, bindVars, libVars>>

\* send_data(frame): RuntimeError on a closed port, else write() and
\* flush(), either of which the hardware may fail (serial.SerialException):
\* when write() raises nothing has gone out; when flush() raises the frame
\* has been handed to the port, and execute_command is left before its
\* read.
SerialWrite ==
    /\ srv = "write"
    /\ IF ~serialOpen
       THEN /\ genResp' = StrKO
            /\ srv' = "loop"
            /\ UNCHANGED <<frame, hwBusy, envFault>>
       ELSE \E outcome \in {"ok", "write raised", "flush raised"} :
              /\ IF outcome = "write raised"
                 THEN UNCHANGED <<frame, hwBusy>>
                 ELSE /\ frame' = process_task_frame(payload)
                      /\ hwBusy' = hwBusy + 1
              /\ IF outcome = "ok"
                 THEN /\ srv' = "read"
                      /\ UNCHANGED <<genResp, envFault>>
                 ELSE /\ genResp' = StrKO
                      /\ srv' = "loop"
                      /\ envFault' = TRUE
    /\ UNCHANGED <<running, gen, serialOpen, nPairs, queueVars, connSt, nResp,
                   payload, reply, sent, nKnown, recVars, bindVars, libVars>>

\* time.sleep(0.1); receive_data(): RuntimeError on a closed port, else
\* readall(), which takes whatever the port holds, and the hex rendering;
\* then _process_task returns. A readall() that raises has read nothing.
SerialRead ==
    /\ srv = "read"
    /\ IF ~serialOpen
       THEN /\ genResp' = StrKO
            /\ srv' = "loop"
            /\ UNCHANGED <<reply, hwBusy, nPairs, connSt, envFault>>
       ELSE \E ok \in BOOLEAN :
              IF ok
              THEN \E output \in BoardReplies :
                     /\ reply' = receive_data(output)
                     /\ hwBusy' = 0
                     /\ nPairs' = nPairs + 1
                     /\ connSt' = [connSt EXCEPT ![cur] = "EXCHANGED"]
                     /\ genResp' = process_task_result(payload, receive_data(output))
                     /\ srv' = "loop"
                     /\ UNCHANGED envFault
              ELSE /\ genResp' = StrKO
                   /\ srv' = "loop"
                   /\ envFault' = TRUE
                   /\ UNCHANGED <<reply, hwBusy, nPairs, connSt>>
    /\ UNCHANGED <<running, gen, serialOpen, queueVars, nResp, payload, frame,
                   sent, nKnown, recVars, bindVars, libVars>>

\* Variant of GenYield in which the generator also ends after a request whose
\* hardware action raised.
GenYield_EndsOnFault ==
    /\ srv = "loop"
    /\ IF serialOpen /\ ~envFault
       THEN /\ gen' = "suspended"
            /\ srv' = "respond"
       ELSE /\ gen' = "done"
            /\ srv' = "close"
    /\ UNCHANGED <<running, genResp, hwVars, queueVars, connSt, nResp, curVars,
                   nKnown, envFault, recVars, bindVars, libVars>>

\* Back at `while self.serial.is_open`: yield response, or fall off the end
\* of the generator, which makes send() raise StopIteration.
GenYield ==
    /\ srv = "loop"
    /\ IF serialOpen
       THEN /\ gen' = "suspended"
            /\ srv' = "respond"
       ELSE /\ gen' = "done"
            /\ srv' = "close"
    /\ UNCHANGED <<running, genResp, hwVars, queueVars, connSt, nResp, curVars,
                   nKnown, envFault, recVars, bindVars, libVars>>

\* connection.send(pickle.dumps(response)); when the peer has gone (reset or
\* broken connection) send raises, `except Exception` logs it and nothing is
\* sent.
Respond ==
    /\ srv = "respond"
    /\ \E delivered \in BOOLEAN :
          IF delivered
          THEN /\ sent' = genResp
               /\ nResp' = [nResp EXCEPT ![cur] = @ + 1]
               /\ connSt' = [connSt EXCEPT ![cur] = "RESPONDED"]
          ELSE UNCHANGED <<sent, nResp, connSt>>
    /\ srv' = "close"
    /\ UNCHANGED <<running, genVars, hwVars, queueVars, payload, frame, reply,
                   nKnown, envFault, recVars, bindVars, libVars>>

\* finally: connection.close(); control returns to the accept loop.
Close ==
    /\ srv = "close"
    /\ connSt' = [connSt EXCEPT ![cur] = "CLOSED"]
    /\ nKnown' = IF IsKnownTask(payload) THEN nKnown + 1 ELSE nKnown
    /\ cur' = 0
    /\ payload' = NoPayload
    /\ frame' = <<>>
    /\ reply' = <<>>
    /\ sent' = <<>>
    /\ envFault' = FALSE
    /\ srv' = "accept"
    /\ UNCHANGED <<running, genVars, hwVars, backlog, nResp, recVars, bindVars, libVars>>

\* KeyboardInterrupt anywhere in the loop: _handle_connection's finally
\* closes the connection in hand, start()'s finally runs stop().
Interrupt ==
    /\ srv \notin {"INIT", "STOPPED"}
    /\ stop
    /\ connSt' = IF cur # 0 THEN [connSt EXCEPT ![cur] = "CLOSED"] ELSE connSt
    /\ cur' = 0
    /\ payload' = NoPayload
    /\ frame' = <<>>
    /\ reply' = <<>>
    /\ sent' = <<>>
    /\ envFault' = FALSE
    /\ UNCHANGED <<genResp, hwBusy, nPairs, backlog, nResp, nKnown, recVars, bindVars, libVars>>

\* The serial channel becomes closed under the running arbiter.
SerialClosed ==
    /\ srv # "STOPPED"
    /\ serialOpen
    /\ serialOpen' = FALSE
    /\ envFault' = (envFault \/ (cur # 0 /\ srv \in {"recv", "loads", "gen", "send",
                                                     "write", "read"}))
    /\ UNCHANGED <<srv, running, genVars, hwBusy, nPairs, queueVars, connSt, nResp,
                   curVars, nKnown, recVars, bindVars, libVars>>

Init == SrvInit /\ RecIdle /\ BindIdle /\ LibIdle

Next ==
    \/ \E c \in Conns : Connect(c)
    \/ Start
    \/ Accept
    \/ AcceptError
    \/ Recv
    \/ Loads
    \/ GenInit
    \/ GenSend
    \/ SerialWrite
    \/ SerialRead
    \/ GenYield
    \/ Respond
    \/ Close
    \/ Interrupt
    \/ StopUnstarted
    \/ SerialClosed

Spec == Init /\ [][Next]_vars

\* ======================================================= arbiter claims

\* A connection that has been accepted and not yet closed.
Active(c) == connSt[c] \in {"ACCEPTED", "DECODED", "DISPATCHED", "EXCHANGED",
                            "RESPONDED"}

\* C1: with any number of clients connecting concurrently, at most one
\* frame written to the board is waiting for its read, it belongs to the
\* one connection being handled, whose exchange is then between write and
\* read, and no connection is open (accepted and not yet closed) and no
\* frame is waiting for its read when the arbiter is back at accept().
C1_OneExchangeInFlight ==
    /\ hwBusy <= 1
    /\ hwBusy = 1 => (cur # 0 /\ srv = "read")
    /\ \A c \in Conns : Active(c) => c = cur
    /\ srv = "accept" => (cur = 0 /\ hwBusy = 0 /\ \A c \in Conns : ~Active(c))

\* The arbiter is back at accept() with the channel open, an answered
\* connection behind it and the next one waiting, while a frame it wrote
\* has had no read.
C1_Witness ==
    /\ srv = "accept"
    /\ running
    /\ serialOpen
    /\ hwBusy = 1
    /\ backlog # <<>>
    /\ \E c \in Conns : connSt[c] = "CLOSED" /\ nResp[c] = 1

\* C2: whenever the arbiter is back at accept(), the serial channel has
\* performed exactly one write/read pair per handled request that carried a
\* Task of a known kind, whatever the arrival order; every such request has
\* had its frame written and its reply read when its connection is closed;
\* pairs never interleave: no frame is written while another waits for its
\* read.
C2_OneExchangePerRequest ==
    /\ hwBusy <= 1
    /\ srv = "accept" => (nPairs = nKnown /\ hwBusy = 0)
    /\ (srv = "close" /\ IsKnownTask(payload))
          => (frame # <<>> /\ connSt[cur] \in {"EXCHANGED", "RESPONDED"})

\* One known-kind request has been handled without a completed pair, and
\* the frame of the next one has been written behind the frame the first
\* left unread: two frames, no read yet.
C2_Witness ==
    /\ srv = "read"
    /\ serialOpen
    /\ hwBusy = 2
    /\ nKnown = 1
    /\ nPairs = 0
    /\ IsKnownTask(payload)

\* The dispatch table of the specification, kind by kind.
TableFrame(t) ==
    CASE t.message = RELAY_DISCONNECT_MSG ->
            build_basic_frame(t.index, CMD_ALL, CMD_OFF)
      [] t.message = RELAY_CONNECT_MSG ->
            build_basic_frame(t.index, CMD_ALL, CMD_ON)
      [] t.message = RELAY_DISCONNECT_MSG_SEC -> build_usb_off_by_value(t.value)
      [] t.message = RELAY_CONNECT_MSG_SEC -> build_usb_on_by_value(t.value)
      [] t.message = RELAY_SET_STATE_MSG -> build_set_port_state(t.index, t.value)
      [] t.message = RELAY_GET_STATE_MSG -> <<126, 7, 6, 0, 0, 127, 85>>

\* C3: for every answered request of a known kind whose hardware action did
\* not raise, the frame written is the one the dispatch table names for the
\* task's port index / hub value, the answer is "OK" for the five control
\* kinds, and for GET_STATES it is the (str-rendered) ordered token list
\* decoded from the board's reply.
C3_DispatchTable ==
    (srv = "close" /\ IsKnownTask(payload) /\ connSt[cur] = "RESPONDED"
       /\ ~envFault)
       => /\ frame = TableFrame(payload)
          /\ payload.message # RELAY_GET_STATE_MSG => sent = StrOK
          /\ payload.message = RELAY_GET_STATE_MSG
                => sent = PyStr(Slice(split(reply, " "), 4, 9))

\* A GET_STATES request answered with a five-token list.
C3_Witness ==
    /\ srv = "close"
    /\ connSt[cur] = "RESPONDED"
    /\ payload.message = RELAY_GET_STATE_MSG
    /\ payload.kind = "task"
    /\ sent = PyStr(<<Hex2(0), Hex2(26), Hex2(0), Hex2(0), Hex2(27)>>)

UnknownTask(p) == p.kind = "task" /\ p.message \notin KnownMsgs

\* The connection in hand is about to be closed after connection.send raised:
\* its request went through the task generator, which is still alive, and
\* no response was sent.
SendRaised ==
    /\ srv = "close"
    /\ cur # 0
    /\ gen # "done"
    /\ connSt[cur] \in {"DISPATCHED", "EXCHANGED"}

\* C4: a Task whose kind is none of the six known ones is answered "KO"
\* (the channel being open and the peer still there to be sent to: when
\* send raises nothing is sent), nothing is written to the hardware for it,
\* its connection is closed and the arbiter is back at accept(), still
\* running.
C4_UnknownKindKO ==
    [][ (srv = "close" /\ UnknownTask(payload) /\ srv' = "accept")
          => /\ frame = <<>>
             /\ nPairs' = nPairs
             /\ serialOpen =>
                   IF SendRaised
                   THEN sent = <<>> /\ nResp[cur] = 0
                   ELSE /\ sent = StrKO
                        /\ nResp[cur] = 1
                        /\ connSt[cur] = "RESPONDED"
             /\ connSt'[cur] = "CLOSED"
             /\ running' ]_vars

\* An unknown-kind request has just been answered "KO".
C4_Witness ==
    /\ srv = "close"
    /\ UnknownTask(payload)
    /\ sent = StrKO
    /\ connSt[cur] = "RESPONDED"

\* Payloads that cannot be deserialized into a Task: no data at all, bytes
\* on which pickle.loads raises, a pickle of something that is not a Task.
Undecodable(p) == p.kind \in {"empty", "garbage", "exit", "nottask"}

\* C5: a payload that cannot be deserialized into a Task causes no hardware
\* exchange and no response; its connection is closed and the arbiter stays
\* in the accept loop, running, its generator untouched, ready for the next
\* connection: deserializing the payload never stops the server.
C5_MalformedDropped ==
    /\ [][ (srv = "close" /\ Undecodable(payload) /\ srv' = "accept")
              => /\ frame = <<>>
                 /\ sent = <<>>
                 /\ nResp'[cur] = 0
                 /\ nPairs' = nPairs
                 /\ connSt[cur] = "ACCEPTED"
                 /\ connSt'[cur] = "CLOSED"
                 /\ running'
                 /\ gen' = gen ]_vars
    /\ [][ (srv = "loads" /\ Undecodable(payload) /\ ~Interrupt)
              => (running' /\ srv' # "STOPPED") ]_vars

\* A payload whose load raised SystemExit has stopped the server while
\* another connection was waiting in the backlog.
C5_Witness ==
    /\ srv = "STOPPED"
    /\ ~running
    /\ payload.kind = "exit"
    /\ backlog # <<>>
    /\ \E c \in Conns : connSt[c] = "CLOSED" /\ nResp[c] = 0

\* C6: once the task pipeline has ended because the serial channel reported
\* closed, the arbiter accepts no further connection.
C6_StopsWhenChannelClosed ==
    [][ (gen = "done" /\ srv = "accept") => srv' # "recv" ]_vars

\* The task pipeline has ended and yet another connection has been accepted.
C6_Witness ==
    /\ gen = "done"
    /\ srv = "recv"
    /\ running
    /\ \E c \in Conns : connSt[c] = "CLOSED" /\ nResp[c] = 0

Rank(s) ==
    CASE s = "NEW" -> 0
      [] s = "QUEUED" -> 1
      [] s = "ACCEPTED" -> 2
      [] s = "DECODED" -> 3
      [] s = "DISPATCHED" -> 4
      [] s = "EXCHANGED" -> 5
      [] s = "RESPONDED" -> 6
      [] s = "CLOSED" -> 7

\* C7: a connection only moves forward through ACCEPTED, DECODED, DISPATCHED,
\* EXCHANGED, RESPONDED, CLOSED (error paths skip ahead, none goes back or
\* decodes/dispatches without the earlier states); a response is sent only
\* once the request has been dispatched, and a result other than "KO" for a
\* known kind only after the exchange; at most one response per connection;
\* every accepted connection is eventually closed: the accepted and not yet
\* closed connection is always the one in hand, and the arbiter always
\* comes to have no connection in hand.
C7_ConnectionLifecycle ==
    /\ [][ \A c \in Conns :
             /\ connSt'[c] # connSt[c]
                  => /\ Rank(connSt'[c]) > Rank(connSt[c])
                     /\ connSt'[c] = "DECODED" => connSt[c] = "ACCEPTED"
                     /\ connSt'[c] = "DISPATCHED" => connSt[c] = "DECODED"
                     /\ connSt'[c] = "EXCHANGED" => connSt[c] = "DISPATCHED"
             /\ (connSt'[c] = "RESPONDED" /\ connSt[c] # "RESPONDED")
                  => /\ connSt[c] \in {"DISPATCHED", "EXCHANGED"}
                     /\ (IsKnownTask(payload) /\ sent' # StrKO)
                           => connSt[c] = "EXCHANGED" ]_vars
    /\ [](\A c \in Conns : nResp[c] <= 1)
    /\ [](\A c \in Conns : Active(c) <=> c = cur)
    /\ (cur # 0) ~> (cur = 0)

\* An earlier connection went the whole way and was closed; the one in hand
\* has been accepted and the arbiter waits in recv() for its request.
C7_Witness ==
    /\ srv = "recv"
    /\ connSt[cur] = "ACCEPTED"
    /\ payload = NoPayload
    /\ nResp[cur] = 0
    /\ \E c \in Conns : connSt[c] = "CLOSED" /\ nResp[c] = 1

\* ================================================= recovery controller
\* DeviceRecoveryController.execute() with its collaborators (the ADB
\* command runner, the USB topology resolver, the binding file and the relay
\* client) as nondeterministic inputs.

\* RelayConfig.adb_timeout, the timeout both toggle loops hand to wait_for_adb.
adb_timeout == 10
\* _recover_invalid_device: wait_for_adb(timeout=1) before the bindings are read.
INVALID_PRECHECK_TIMEOUT == 1
\* _recover_invalid_device: `for attempt in range(2)`.
INVALID_ATTEMPTS == 2

\* What `adb get-state` can print: "unknown" stands for every other output,
\* the empty string of a failed command included.
AdbStates == {"device", "offline", "unknown"}
\* Hub values the resolver can produce; 0 is falsy like None (unresolved).
HubValues == {0, 26}
\* Relay ports a binding can name.
BoundPorts == {2}

StoreOf(k, h, p) == [kind |-> k, hub |-> h, port |-> p]
\* A stored pc_hub_id of None, which _save_binding(self.hub_value, port)
\* writes for a device whose hub value is unresolved: no hub id, and not
\* equal to 0.
StoredNone == -1
\* JPORTS.PKL: missing, unreadable, without the serial number, or holding
\* (pc_hub_id, relay_port) for it.
Stores ==
    {StoreOf("nofile", 0, 0), StoreOf("loaderr", 0, 0), StoreOf("absent", 0, 0)}
    \cup {StoreOf("entry", h, p) : h \in HubValues \cup {StoredNone},
                                    p \in BoundPorts}

Ev(e, m, i, v, s) == [ev |-> e, message |-> m, index |-> i, value |-> v, state |-> s]
\* Task(device, message) handed to _send_relay_request.
Req(m, i, v) == Ev("req", m, i, v, "")
\* restart_adb_server()
Restart == Ev("restart", -1, 0, 0, "")
\* get_adb_state() at the top of a recovery attempt
StateRead(s) == Ev("state", -1, 0, 0, s)

IsReq(e) == e.ev = "req"
HasReq(log) == \E i \in 1 .. Len(log) : IsReq(log[i])

\* State at the call of execute(): initialize() has resolved the hub value
\* or not, the configuration carries max_recovery_attempts.
RecInit ==
    /\ rpc = "execute"
    /\ hub \in HubValues
    /\ maxAtt \in 0 .. MaxAttempts
    /\ attempt = 0
    /\ polls = 0
    /\ evLog = <<>>
    /\ result = "none"
    /\ firstRead = "none"
    /\ preReads = {}
    /\ lastRead = "none"
    /\ invRet = "none"
    /\ store \in Stores

\* One get_adb_state() call: the state read, remembered.
ReadAdb(s) ==
    /\ lastRead' = s
    /\ preReads' = IF HasReq(evLog) THEN preReads ELSE preReads \cup {s}

\* execute() returns r.
Return(r) ==
    /\ rpc' = "done"
    /\ result' = r

\* Variant of execute() without the is_adb_connected() shortcut.
execute_NoShortcut ==
    /\ rpc = "execute"
    /\ \E s \in AdbStates :
          /\ ReadAdb(s)
          /\ firstRead' = s
          /\ rpc' = IF hub = 0 THEN "invalid" ELSE "recover"
    /\ UNCHANGED <<hub, maxAtt, attempt, polls, evLog, result, store, invRet, srvVars, bindVars, libVars>>

\* execute() lines 106-119: the is_adb_connected() shortcut, then the choice
\* between invalid-device recovery and the hub-value loop.
execute ==
    /\ rpc = "execute"
    /\ \E s \in AdbStates :
          /\ ReadAdb(s)
          /\ firstRead' = s
          /\ IF s = "device"
             THEN Return("True")
             ELSE /\ rpc' = IF hub = 0 THEN "invalid" ELSE "recover"
                  /\ UNCHANGED result
    /\ UNCHANGED <<hub, maxAtt, attempt, polls, evLog, store, invRet, srvVars, bindVars, libVars>>

\* _send_relay_request(task): the request goes out; RelayClient.send_request
\* returns (a response or None, ignored by the caller) or raises, which ends
\* execute() by that exception. `next` is where execute() goes on otherwise.
SendRelayRequest(task, next) ==
    /\ evLog' = Append(evLog, task)
    /\ \E raised \in BOOLEAN :
          IF raised
          THEN Return("raised")
          ELSE /\ rpc' = next
               /\ UNCHANGED result

\* _recover_invalid_device lines 209-213: a valid device, or one that ADB
\* sees within wait_for_adb(timeout=1), needs no port toggle.
recover_invalid_device ==
    /\ rpc = "invalid"
    /\ \E valid \in BOOLEAN :
          IF valid
          THEN /\ rpc' = "recover"
               /\ invRet' = "True"
               /\ UNCHANGED <<polls, preReads, lastRead>>
          ELSE /\ rpc' = "inv_precheck"
               /\ polls' = 0
               /\ UNCHANGED <<preReads, lastRead, invRet>>
    /\ UNCHANGED <<hub, maxAtt, attempt, evLog, result, firstRead, store, srvVars, bindVars, libVars>>

\* Variant of LoadBindings that toggles the stored port whatever the stored
\* hub id is.
LoadBindings_AnyHubId ==
    /\ rpc = "bindings"
    /\ IF store.kind # "entry"
       THEN /\ Return("False")
            /\ invRet' = "False"
            /\ UNCHANGED attempt
       ELSE /\ rpc' = "inv_loop"
            /\ attempt' = 0
            /\ UNCHANGED <<result, invRet>>
    /\ UNCHANGED <<hub, maxAtt, polls, evLog, firstRead, preReads, lastRead, store,
                   srvVars, bindVars, libVars>>

\* _recover_invalid_device lines 216-238: the binding file decides whether
\* there is a port to toggle. `pc_hub_id == 0` is true of a stored 0 only: a
\* stored None goes on to the toggle loop.
LoadBindings ==
    /\ rpc = "bindings"
    /\ IF store.kind # "entry" \/ store.hub = 0
       THEN /\ Return("False")
            /\ invRet' = "False"
            /\ UNCHANGED attempt
       ELSE /\ rpc' = "inv_loop"
            /\ attempt' = 0
            /\ UNCHANGED <<result, invRet>>
    /\ UNCHANGED <<hub, maxAtt, polls, evLog, firstRead, preReads, lastRead, store,
                   srvVars, bindVars, libVars>>

\* Variant of InvalidDisconnect that disconnects by the stored hub value
\* instead of the stored port index.
InvalidDisconnect_ByHubValue ==
    /\ rpc = "inv_loop"
    /\ IF attempt < INVALID_ATTEMPTS
       THEN /\ SendRelayRequest(Req(RELAY_DISCONNECT_MSG_SEC, DEVICE_DEFAULT_INDEX,
                                    store.hub), "inv_connect")
            /\ UNCHANGED invRet
       ELSE /\ Return("False")
            /\ invRet' = "False"
            /\ UNCHANGED evLog
    /\ UNCHANGED <<hub, maxAtt, attempt, polls, firstRead, preReads, lastRead, store,
                   srvVars, bindVars, libVars>>

\* _recover_invalid_device lines 240-245: next attempt of the by-index loop,
\* or the end of the loop and `return False` (execute() line 119).
InvalidDisconnect ==
    /\ rpc = "inv_loop"
    /\ IF attempt < INVALID_ATTEMPTS
       THEN /\ SendRelayRequest(Req(RELAY_DISCONNECT_MSG, store.port,
                                    DEVICE_DEFAULT_VALUE), "inv_connect")
            /\ UNCHANGED invRet
       ELSE /\ Return("False")
            /\ invRet' = "False"
            /\ UNCHANGED evLog
    /\ UNCHANGED <<hub, maxAtt, attempt, polls, firstRead, preReads, lastRead, store,
                   srvVars, bindVars, libVars>>

\* _recover_invalid_device lines 246-250: sleep(1), then the connect request.
InvalidConnect ==
    /\ rpc = "inv_connect"
    /\ SendRelayRequest(Req(RELAY_CONNECT_MSG, store.port, DEVICE_DEFAULT_VALUE),
                        "inv_wait")
    /\ polls' = 0
    /\ UNCHANGED <<hub, maxAtt, attempt, firstRead, preReads, lastRead, store, invRet, srvVars, bindVars, libVars>>

\* execute() lines 122-126 and _recover_adb_connection lines 271-278: a hub
\* value still unresolved is asked of the resolver once more.
recover_adb_connection ==
    /\ rpc = "recover"
    /\ \E h \in HubValues :
          /\ hub' = IF hub = 0 THEN h ELSE hub
          /\ IF hub' = 0
             THEN /\ Return("False")
                  /\ UNCHANGED attempt
             ELSE /\ rpc' = "rec_loop"
                  /\ attempt' = 0
                  /\ UNCHANGED result
    /\ UNCHANGED <<maxAtt, polls, evLog, firstRead, preReads, lastRead, store, invRet, srvVars, bindVars, libVars>>

\* Variant of RecoverAttempt that never restarts the ADB server.
RecoverAttempt_NoRestart ==
    /\ rpc = "rec_loop"
    /\ IF attempt < maxAtt
       THEN \E s \in AdbStates :
              /\ ReadAdb(s)
              /\ evLog' = Append(evLog, StateRead(s))
              /\ IF s = "device"
                 THEN Return("True")
                 ELSE /\ rpc' = "rec_disconnect"
                      /\ UNCHANGED result
       ELSE /\ Return("False")
            /\ UNCHANGED <<evLog, preReads, lastRead>>
    /\ UNCHANGED <<hub, maxAtt, attempt, polls, firstRead, store, invRet, srvVars, bindVars, libVars>>

\* _recover_adb_connection lines 280-292: next attempt of the hub-value loop
\* reads the ADB state, returns on "device", restarts the ADB server on
\* "offline"; past the last attempt the loop ends and `return False`.
RecoverAttempt ==
    /\ rpc = "rec_loop"
    /\ IF attempt < maxAtt
       THEN \E s \in AdbStates :
              /\ ReadAdb(s)
              /\ IF s = "device"
                 THEN /\ Return("True")
                      /\ evLog' = Append(evLog, StateRead(s))
                 ELSE /\ rpc' = "rec_disconnect"
                      /\ evLog' = IF s = "offline"
                                  THEN evLog \o <<StateRead(s), Restart>>
                                  ELSE Append(evLog, StateRead(s))
                      /\ UNCHANGED result
       ELSE /\ Return("False")
            /\ UNCHANGED <<evLog, preReads, lastRead>>
    /\ UNCHANGED <<hub, maxAtt, attempt, polls, firstRead, store, invRet, srvVars, bindVars, libVars>>

\* _recover_adb_connection lines 295-296.
RecoverDisconnect ==
    /\ rpc = "rec_disconnect"
    /\ SendRelayRequest(Req(RELAY_DISCONNECT_MSG_SEC, DEVICE_DEFAULT_INDEX, hub),
                        "rec_connect")
    /\ UNCHANGED <<hub, maxAtt, attempt, polls, firstRead, preReads, lastRead, store,
                   invRet, srvVars, bindVars, libVars>>

\* _recover_adb_connection lines 297-301: sleep(1), then the connect request.
RecoverConnect ==
    /\ rpc = "rec_connect"
    /\ SendRelayRequest(Req(RELAY_CONNECT_MSG_SEC, DEVICE_DEFAULT_INDEX, hub),
                        "rec_wait")
    /\ polls' = 0
    /\ UNCHANGED <<hub, maxAtt, attempt, firstRead, preReads, lastRead, store, invRet, srvVars, bindVars, libVars>>

\* The timeout of the wait_for_adb call in progress.
WaitTimeout(pc) == IF pc = "inv_precheck" THEN INVALID_PRECHECK_TIMEOUT ELSE adb_timeout

\* wait_for_adb(timeout): one pass of `for attempt in range(timeout)`, or
\* the `return False` after it; the caller goes on from the value returned.
wait_for_adb ==
    /\ rpc \in {"inv_precheck", "inv_wait", "rec_wait"}
    /\ IF polls < WaitTimeout(rpc)
       THEN \E s \in AdbStates :
              /\ ReadAdb(s)
              /\ IF s = "device"
                 THEN /\ IF rpc = "rec_wait"
                         THEN Return("True") /\ UNCHANGED invRet
                         ELSE /\ rpc' = "recover"
                              /\ invRet' = "True"
                              /\ UNCHANGED result
                      /\ UNCHANGED <<polls, attempt>>
                 ELSE /\ polls' = polls + 1
                      /\ UNCHANGED <<rpc, result, attempt, invRet>>
       ELSE /\ rpc' = CASE rpc = "inv_precheck" -> "bindings"
                        [] rpc = "inv_wait" -> "inv_loop"
                        [] rpc = "rec_wait" -> "rec_loop"
            /\ attempt' = IF rpc = "inv_precheck" THEN attempt ELSE attempt + 1
            /\ UNCHANGED <<polls, result, preReads, lastRead, invRet>>
    /\ UNCHANGED <<hub, maxAtt, evLog, firstRead, store, srvVars, bindVars, libVars>>

RecNext ==
    \/ execute
    \/ recover_invalid_device
    \/ LoadBindings
    \/ InvalidDisconnect
    \/ InvalidConnect
    \/ recover_adb_connection
    \/ RecoverAttempt
    \/ RecoverDisconnect
    \/ RecoverConnect
    \/ wait_for_adb

\* A controller about to run execute(), beside an arbiter that is not stepping.
RecStart == SrvInit /\ RecInit /\ BindIdle /\ LibIdle

RecSpec == RecStart /\ [][RecNext]_vars

\* ======================================================= recovery claims

IsHubReq(e) ==
    IsReq(e) /\ e.message \in {RELAY_DISCONNECT_MSG_SEC, RELAY_CONNECT_MSG_SEC}
IsIndexReq(e) ==
    IsReq(e) /\ e.message \in {RELAY_DISCONNECT_MSG, RELAY_CONNECT_MSG}
IsStateRead(e) == e.ev = "state"

ReqIdx(log) == {i \in 1 .. Len(log) : IsReq(log[i])}
HubReqIdx(log) == {i \in 1 .. Len(log) : IsHubReq(log[i])}
IndexReqIdx(log) == {i \in 1 .. Len(log) : IsIndexReq(log[i])}
StateIdx(log) == {i \in 1 .. Len(log) : IsStateRead(log[i])}
FirstIdx(S) == CHOOSE i \in S : \A j \in S : i <= j
RestartsBefore(log, i) == Cardinality({j \in 1 .. (i - 1) : log[j].ev = "restart"})

\* The hub-value requests sent so far, in order, and the cycles they started.
HubReqs(log) == SelectSeq(log, IsHubReq)
Cycles(log) ==
    Cardinality({i \in HubReqIdx(log) : log[i].message = RELAY_DISCONNECT_MSG_SEC})

\* C8: recovery started while the ADB state is "device" sends no relay
\* request (no disconnect, no connect) and returns success; likewise an
\* attempt of the hub-value loop that reads "device" sends nothing more and
\* returns success.
C8_DeviceNoToggle ==
    /\ firstRead = "device"
          => (rpc = "done" /\ result = "True" /\ evLog = <<>>)
    /\ \A i \in 1 .. Len(evLog) :
          evLog[i] = StateRead("device")
             => (i = Len(evLog) /\ rpc = "done" /\ result = "True")

\* execute() has returned True on its first read, with a resolved hub value
\* and attempts to spare.
C8_Witness ==
    /\ rpc = "done"
    /\ firstRead = "device"
    /\ result = "True"
    /\ evLog = <<>>
    /\ hub # 0
    /\ maxAtt = MaxAttempts

\* C9 as stated: recovery started while the ADB state is "offline" (and read
\* as "offline" every time up to the first toggle) has issued exactly one ADB
\* server restart before the first relay request it sends, whichever path
\* it took, the unresolved hub value included.
C9_RestartBeforeFirstToggle ==
    (firstRead = "offline" /\ preReads = {"offline"} /\ HasReq(evLog))
       => RestartsBefore(evLog, FirstIdx(ReqIdx(evLog))) = 1

\* C9: a recovery whose first attempt of the hub-value loop reads "offline"
\* has issued exactly one ADB server restart before its first hub-value
\* request (none when that attempt read another state), and the first
\* hub-value request is a disconnect; the by-index requests of invalid-device
\* recovery, sent when the hub value is unresolved at entry, have no restart
\* before them.
C9_RestartBeforeFirstHubToggle ==
    /\ HubReqIdx(evLog) # {}
          => /\ StateIdx(evLog) # {}
             /\ FirstIdx(StateIdx(evLog)) < FirstIdx(HubReqIdx(evLog))
             /\ RestartsBefore(evLog, FirstIdx(HubReqIdx(evLog)))
                   = (IF evLog[FirstIdx(StateIdx(evLog))].state = "offline"
                      THEN 1 ELSE 0)
             /\ evLog[FirstIdx(HubReqIdx(evLog))].message = RELAY_DISCONNECT_MSG_SEC
    /\ IndexReqIdx(evLog) # {}
          => RestartsBefore(evLog, FirstIdx(IndexReqIdx(evLog))) = 0

\* Started offline with the hub value unresolved: the bound port was toggled
\* by index, the device came back, and the first attempt of the hub-value
\* loop read "offline", restarted the ADB server and sent its disconnect.
C9_Witness ==
    /\ firstRead = "offline"
    /\ IndexReqIdx(evLog) # {}
    /\ HubReqIdx(evLog) # {}
    /\ evLog[FirstIdx(StateIdx(evLog))].state = "offline"
    /\ RestartsBefore(evLog, FirstIdx(HubReqIdx(evLog))) = 1

\* The hub-value requests are cycles in order: disconnect, connect,
\* disconnect, .. each for the device's hub value.
InCycleOrder(reqs) ==
    \A k \in 1 .. Len(reqs) :
       reqs[k] = Req(IF k % 2 = 1 THEN RELAY_DISCONNECT_MSG_SEC
                                  ELSE RELAY_CONNECT_MSG_SEC,
                     DEVICE_DEFAULT_INDEX, hub)

\* What C10 states apart from its last clause: at most max_attempts cycles,
\* each a disconnect followed by a connect for the hub value (so whole
\* cycles once execute() has ended), no cycle started once presence was
\* read, success returned on a read of "device".
CyclesBoundedAndOrdered ==
    /\ Cycles(evLog) <= maxAtt
    /\ InCycleOrder(HubReqs(evLog))
    /\ result # "none" => Len(HubReqs(evLog)) = 2 * Cycles(evLog)
    /\ rpc \in {"rec_disconnect", "rec_connect"} => lastRead # "device"
    /\ result = "True" => lastRead = "device"

\* C10: at most max_attempts toggle cycles, each a DISCONNECT_BY_HUBVALUE
\* followed by a CONNECT_BY_HUBVALUE for the device's hub value; success is
\* returned at the first read of ADB presence and no cycle starts after it;
\* failure is returned only after max_attempts unsuccessful cycles.
C10_FailureOnlyAfterMaxAttempts ==
    /\ CyclesBoundedAndOrdered
    /\ result = "False" => Cycles(evLog) = maxAtt

\* execute() ended inside its second cycle: the first cycle did not bring
\* the device back, the second disconnect was sent and no connect after it.
C10_Witness ==
    /\ rpc = "done"
    /\ result = "raised"
    /\ hub # 0
    /\ maxAtt >= 2
    /\ Cycles(evLog) = 2
    /\ Len(HubReqs(evLog)) = 3

\* ---------------------------------------------- invalid-device recovery
\* execute() is inside _recover_invalid_device.
InInvalidRecovery ==
    rpc \in {"invalid", "inv_precheck", "bindings", "inv_loop", "inv_connect",
             "inv_wait"}
IndexReqs(log) == SelectSeq(log, IsIndexReq)
IndexCycles(log) ==
    Cardinality({i \in IndexReqIdx(log) : log[i].message = RELAY_DISCONNECT_MSG})

\* What C11 states for a stored entry: only that entry's port is toggled, by
\* index, disconnect then connect, at most 2 cycles, no cycle once ADB
\* presence was read, and no hub-value request from this procedure; without
\* an entry no request is sent.
InvalidTogglesBoundPort ==
    /\ \A k \in 1 .. Len(IndexReqs(evLog)) :
          IndexReqs(evLog)[k] = Req(IF k % 2 = 1 THEN RELAY_DISCONNECT_MSG
                                                 ELSE RELAY_CONNECT_MSG,
                                    store.port, DEVICE_DEFAULT_VALUE)
    /\ IndexCycles(evLog) <= 2
    /\ invRet # "none" => Len(IndexReqs(evLog)) = 2 * IndexCycles(evLog)
    /\ rpc = "inv_connect" => lastRead # "device"
    /\ (invRet = "True" /\ IndexReqIdx(evLog) # {})
          => \E j \in 1 .. 2 : Len(IndexReqs(evLog)) = 2 * j
    /\ InInvalidRecovery => HubReqIdx(evLog) = {}
    /\ store.kind # "entry" => IndexReqIdx(evLog) = {}

\* C11 as stated: .. and when no entry exists the procedure fails.
C11_NoEntryFails ==
    /\ InvalidTogglesBoundPort
    /\ (store.kind # "entry" /\ invRet # "none") => invRet = "False"

\* C11: _recover_invalid_device toggles only the stored entry's port, by
\* index (disconnect then connect), at most 2 cycles, stops at the first
\* cycle after which ADB presence is read, and sends no hub-value request;
\* once it consults the store and finds no entry for the serial number (or
\* an entry whose hub id is 0) it sends no relay request and fails. A device
\* found valid, or seen by ADB, before the store is consulted makes it
\* succeed without any request, entry or not.
C11_InvalidRecoveryByIndex ==
    /\ []InvalidTogglesBoundPort
    /\ [][ (rpc = "bindings" /\ (store.kind # "entry" \/ store.hub = 0))
              => (invRet' = "False" /\ result' = "False" /\ evLog' = evLog) ]_vars
    /\ []((invRet = "False" /\ (store.kind # "entry" \/ store.hub = 0))
              => evLog = <<>>)
    /\ []((invRet = "False" /\ store.kind = "entry" /\ store.hub # 0)
              => IndexCycles(evLog) = 2)

\* The bound port was toggled once by index, the device came back, and the
\* procedure returned True.
C11_Witness ==
    /\ store.kind = "entry"
    /\ invRet = "True"
    /\ IndexReqs(evLog) = <<Req(RELAY_DISCONNECT_MSG, store.port, 0),
                            Req(RELAY_CONNECT_MSG, store.port, 0)>>
    /\ lastRead = "device"

\* ======================================================================
\* Binding engine: relay/controllers/initializer.py (DeviceInitializer)
\* ======================================================================

\* The board has 5 ports: get_all_port_states keeps tokens [4:9].
NumPorts == 5

\* s.lstrip(chars) / s.rstrip(chars) / s.strip(chars)
RECURSIVE lstrip(_, _)
lstrip(s, chars) ==
    IF s # <<>> /\ s[1] \in chars THEN lstrip(Tail(s), chars) ELSE s

RECURSIVE rstrip(_, _)
rstrip(s, chars) ==
    IF s # <<>> /\ s[Len(s)] \in chars
    THEN rstrip(SubSeq(s, 1, Len(s) - 1), chars) ELSE s

strip(s, chars) == rstrip(lstrip(s, chars), chars)

\* s.replace(old, '') for a one-character old.
replace(s, old) == SelectSeq(s, LAMBDA c : c # old)

\* s.split(sep) for a separator of one or more characters.
RECURSIVE SplitByAcc(_, _, _)
SplitByAcc(s, sep, acc) ==
    IF s = <<>> THEN <<acc>>
    ELSE IF Len(s) >= Len(sep) /\ SubSeq(s, 1, Len(sep)) = sep
    THEN <<acc>> \o SplitByAcc(SubSeq(s, Len(sep) + 1, Len(s)), sep, <<>>)
    ELSE SplitByAcc(Tail(s), sep, Append(acc, s[1]))

SplitBy(s, sep) == SplitByAcc(s, sep, <<>>)

\* What send_request handed back: a string, or None.
StrResp(s) == [t |-> "str", v |-> s]
NoneResp == [t |-> "None", v |-> <<>>]

\* _get_relay_port_states, lines 252-259: the parse of the answer.
get_relay_port_states(response) ==
    IF response.t = "str"
    THEN SplitBy(replace(strip(response.v, {"[", "]"}), "'"), <<",", " ">>)
    ELSE <<>>

\* f'{self.hub_value:02x}' if self.hub_value else ''
hub_value_str == IF hub_value # 0 THEN Hex2(hub_value) ELSE <<>>

\* Hub values on this host: the engine's own device (26 when resolved) and
\* another device's (43).
OwnHub == 26
OtherHub == 43
PortBytes == {0, OwnHub, OtherHub}
PortTokens == {Hex2(b) : b \in PortBytes}
FreeToken == Hex2(0)

\* What the board can report for its ports.
BoardStateLists ==
    {<<a, b, c, d, e>> : a \in PortTokens, b \in PortTokens, c \in PortTokens,
                         d \in PortTokens, e \in PortTokens}

\* What the GET_STATE request can come back with: str(states) for a board
\* that answered, '[]' for one that did not, 'KO' from the task handler,
\* None from the client.
GetStateResponses ==
    {StrResp(PyStr(l)) : l \in BoardStateLists \cup {<<>>}}
        \cup {StrResp(StrKO), NoneResp}

\* Calls the command line makes: bind (auto-detect, or --port with or
\* without --force) and release.
ExplicitPorts == {2, 7}
Ops ==
    {[kind |-> "bind", port |-> 0, force |-> FALSE]}
        \cup {[kind |-> "bind", port |-> p, force |-> f] :
                  p \in ExplicitPorts, f \in BOOLEAN}
        \cup {[kind |-> "release", port |-> 0, force |-> FALSE]}

\* Binding files the call can find: none, a dict with or without an entry
\* for each serial number, or the 0 bytes an earlier dump that raised left.
Entries == [A |-> {NoEntry, <<OwnHub, 2>>}, B |-> {NoEntry, <<OtherHub, 4>>}]
BindingFiles ==
    {NoFile, EmptiedFile}
        \cup {FileOf([s \in Serials |-> IF s = "A" THEN a ELSE b]) :
                  a \in Entries.A, b \in Entries.B}

\* A DeviceInitializer for serial "A" about to run initialize().
BindInit ==
    /\ bpc = "init"
    /\ op \in Ops
    /\ hub_value \in {0, OwnHub}
    /\ relay_port_states = <<>>
    /\ phase = "none"
    /\ todo = <<>>
    /\ pport = 0
    /\ times = 0
    /\ probeAtt = 0
    /\ reqLog = <<>>
    /\ bindResult = "none"
    /\ flashing \in {"none", "running"}
    /\ flashAbsent = FALSE
    /\ pkl_file \in BindingFiles
    /\ pkl0 = pkl_file
    /\ writes = <<>>
    /\ loadFailed = FALSE
    /\ spc = [e \in Serials |-> "idle"]
    /\ devices = [e \in Serials |-> EmptyDict]
    /\ saveArg = [e \in Serials |-> <<0, 0>>]

\* RelayClient.send_request as the engine uses it for requests whose answer
\* it ignores: the request is sent; the call returns, or raises when the
\* server closes the connection without an answer.
BindSend(task, next) ==
    /\ reqLog' = Append(reqLog, task)
    /\ \E raised \in BOOLEAN :
          IF raised
          THEN /\ bindResult' = "raised"
               /\ bpc' = "done"
          ELSE /\ bpc' = next
               /\ UNCHANGED bindResult

\* `return r` from bind_device / release_device.
BindReturn(r) ==
    /\ bindResult' = r
    /\ bpc' = "done"

\* initialize(), lines 74-109, as __enter__ calls it (its result is
\* ignored). USBDeviceInfo() or DatabaseManager() (lines 76-86) may raise:
\* the except clause returns before any request, with relay_port_states []
\* and hub_value None. Otherwise lines 88-92: the GET_STATE request and its
\* parse; an exception of the request is caught (lines 261-263) and gives [].
initialize ==
    /\ bpc = "init"
    /\ \/ /\ reqLog' = <<>>
          /\ relay_port_states' = <<>>
          /\ hub_value' = 0
       \/ /\ reqLog' = <<Req(RELAY_GET_STATE_MSG, DEVICE_DEFAULT_INDEX,
                             DEVICE_DEFAULT_VALUE)>>
          /\ \E raised \in BOOLEAN :
                IF raised
                THEN relay_port_states' = <<>>
                ELSE \E r \in GetStateResponses :
                        relay_port_states' = get_relay_port_states(r)
          /\ UNCHANGED hub_value
    /\ bpc' = "call"
    /\ UNCHANGED <<op, probeVars, bindResult, flashing, flashAbsent,
                   pkl0, saveVars, srvVars, recVars, libVars>>

\* [i + 1 for i, v in enumerate(..) if ..]: the chosen indexes, ascending.
RECURSIVE Ascending(_)
Ascending(S) ==
    IF S = {} THEN <<>>
    ELSE LET m == CHOOSE x \in S : \A y \in S : x <= y
         IN  <<m>> \o Ascending(S \ {m})

MatchingPorts ==
    Ascending({i \in 1 .. Len(relay_port_states) :
                  relay_port_states[i] = hub_value_str})
\* Variant of UnboundPorts that lists the free ports from the highest down.
UnboundPorts_Descending ==
    LET up == Ascending({i \in 1 .. Len(relay_port_states) :
                            relay_port_states[i] = FreeToken})
    IN  [i \in 1 .. Len(up) |-> up[Len(up) + 1 - i]]

UnboundPorts ==
    Ascending({i \in 1 .. Len(relay_port_states) :
                  relay_port_states[i] = FreeToken})
BoundPortList ==
    Ascending({i \in 1 .. Len(relay_port_states) :
                  relay_port_states[i] # FreeToken})

\* _test_port_connection(port, times) is entered for the first of `ports`.
StartProbes(ph, ports, t) ==
    /\ phase' = ph
    /\ pport' = Head(ports)
    /\ todo' = Tail(ports)
    /\ times' = t
    /\ probeAtt' = 0
    /\ bpc' = "p_disc"

\* bind_device, lines 126-145: an operation starts; the already-bound check
\* `hub_value_str in relay_port_states and _is_bonded_to_port()` probes the
\* matching ports 3 times each.
bind_device ==
    /\ bpc = "call"
    /\ op.kind = "bind"
    /\ IF MatchingPorts # <<>>
       THEN StartProbes("bonded", MatchingPorts, 3)
       ELSE /\ bpc' = "after_bonded"
            /\ UNCHANGED probeVars
    /\ UNCHANGED <<op, hub_value, relay_port_states, reqLog, bindResult, flashing,
                   flashAbsent, pkl0, saveVars, srvVars, recVars, libVars>>

\* bind_device lines 147-153: `if port: return self._bind_to_port(port, force)`
\* (lines 289-310), else _bind_to_unbound_port (lines 312-330) over the
\* ports whose token is '00'.
bind_to_port_or_unbound ==
    /\ bpc = "after_bonded"
    /\ IF op.port # 0
       THEN IF /\ ~op.force
               /\ op.port <= Len(relay_port_states)
               /\ relay_port_states[op.port] # FreeToken
            THEN /\ BindReturn("False")
                 /\ UNCHANGED probeVars
            ELSE /\ StartProbes("explicit", <<op.port>>, 1)
                 /\ UNCHANGED bindResult
       ELSE IF UnboundPorts # <<>>
            THEN /\ StartProbes("unbound", UnboundPorts, 1)
                 /\ UNCHANGED bindResult
            ELSE /\ bpc' = "flash"
                 /\ UNCHANGED <<probeVars, bindResult>>
    /\ UNCHANGED <<op, hub_value, relay_port_states, reqLog, flashing,
                   flashAbsent, pkl0, saveVars, srvVars, recVars, libVars>>

\* _check_process_exists, lines 443-462: what a poll can return. A process
\* that does not run is never found; one that runs is found, or is not:
\* without pywin32 (HAS_WIN32 False) and when the WMI query raises the
\* method returns False.
check_process_exists == IF flashing = "running" THEN BOOLEAN ELSE {FALSE}

\* _wait_for_download_process, lines 435-441: one poll of
\* _check_process_exists('ResearchDownload.exe') that returned `found`;
\* sleep(15) and poll again while it returns True.
WaitPoll(found) ==
    /\ bpc = "flash"
    /\ found \in check_process_exists
    /\ IF found
       THEN UNCHANGED <<bpc, flashAbsent>>
       ELSE /\ flashAbsent' = TRUE
            /\ bpc' = "bound"
    /\ UNCHANGED <<op, hub_value, relay_port_states, probeVars, reqLog,
                   bindResult, flashing, pkl0, saveVars, srvVars, recVars, libVars>>

wait_for_download_process ==
    /\ bpc = "flash"
    /\ \E found \in check_process_exists : WaitPoll(found)

\* The flashing tool exits while bind_device polls for it.
FlashingEnds ==
    /\ bpc = "flash"
    /\ flashing = "running"
    /\ flashing' = "exited"
    /\ UNCHANGED <<bpc, op, hub_value, relay_port_states, probeVars, reqLog,
                   bindResult, flashAbsent, pkl0, saveVars, srvVars, recVars, libVars>>

\* _bind_to_bound_port, lines 332-348: the ports whose token is not '00'.
bind_to_bound_port ==
    /\ bpc = "bound"
    /\ IF BoundPortList # <<>>
       THEN /\ StartProbes("bound", BoundPortList, 1)
            /\ UNCHANGED bindResult
       ELSE /\ BindReturn("False")
            /\ UNCHANGED probeVars
    /\ UNCHANGED <<op, hub_value, relay_port_states, reqLog, flashing,
                   flashAbsent, pkl0, saveVars, srvVars, recVars, libVars>>

\* _test_port_connection lines 364-367: the disconnect request of an attempt.
ProbeDisconnect ==
    /\ bpc = "p_disc"
    /\ BindSend(Req(RELAY_DISCONNECT_MSG, pport, DEVICE_DEFAULT_VALUE), "p_check")
    /\ UNCHANGED <<op, hub_value, relay_port_states, probeVars, flashing,
                   flashAbsent, pkl0, saveVars, srvVars, recVars, libVars>>

\* _test_port_connection lines 368-381: after sleep(2) the device is gone
\* from `adb devices` or not; the connect request is sent either way, and
\* only a device that was gone is waited for.
ProbeConnect ==
    /\ bpc = "p_check"
    /\ \E gone \in BOOLEAN :
          BindSend(Req(RELAY_CONNECT_MSG, pport, DEVICE_DEFAULT_VALUE),
                   IF gone THEN "p_wait" ELSE "p_next")
    /\ UNCHANGED <<op, hub_value, relay_port_states, probeVars, flashing,
                   flashAbsent, pkl0, saveVars, srvVars, recVars, libVars>>

\* _test_port_connection lines 375-377: wait_for_adb(timeout=90). When it
\* sees the device the probe returns True and the caller runs
\* _save_binding(self.hub_value, port).
ProbeWait ==
    /\ bpc = "p_wait"
    /\ \E seen \in BOOLEAN :
          IF seen
          THEN /\ bpc' = "save"
               /\ spc' = [spc EXCEPT !["A"] = "load"]
               /\ saveArg' = [saveArg EXCEPT !["A"] = <<hub_value, pport>>]
          ELSE /\ bpc' = "p_next"
               /\ UNCHANGED <<spc, saveArg>>
    /\ UNCHANGED <<op, hub_value, relay_port_states, probeVars, reqLog, bindResult,
                   flashing, flashAbsent, pkl0, pkl_file, writes, loadFailed,
                   devices, srvVars, recVars, libVars>>

\* An attempt found nothing: the next attempt of the probe, or the probe
\* returns False and its caller goes on: to the next port of its list, or
\* out of its loop (bind_device lines 143-163).
ProbeNext ==
    /\ bpc = "p_next"
    /\ IF probeAtt + 1 < times
       THEN /\ probeAtt' = probeAtt + 1
            /\ bpc' = "p_disc"
            /\ UNCHANGED <<phase, todo, pport, times, bindResult>>
       ELSE IF todo # <<>>
       THEN /\ StartProbes(phase, todo, times)
            /\ UNCHANGED bindResult
       ELSE IF phase = "bonded"
       THEN /\ bpc' = "after_bonded"
            /\ UNCHANGED <<probeVars, bindResult>>
       ELSE IF phase = "unbound"
       THEN /\ bpc' = "flash"
            /\ UNCHANGED <<probeVars, bindResult>>
       ELSE /\ BindReturn("False")
            /\ UNCHANGED probeVars
    /\ UNCHANGED <<op, hub_value, relay_port_states, reqLog, flashing,
                   flashAbsent, pkl0, saveVars, srvVars, recVars, libVars>>

\* _save_binding lines 415-423 for engine e: devices = {}, then the load of
\* an existing file; a load that raises leaves devices = {}.
save_load(e) ==
    /\ spc[e] = "load"
    /\ \/ /\ pkl_file.exists
          /\ ~pkl_file.truncated
          /\ devices' = [devices EXCEPT ![e] = pkl_file.ent]
          /\ UNCHANGED loadFailed
       \/ /\ pkl_file.exists
          /\ devices' = [devices EXCEPT ![e] = EmptyDict]
          /\ loadFailed' = TRUE
       \/ /\ ~pkl_file.exists
          /\ devices' = [devices EXCEPT ![e] = EmptyDict]
          /\ UNCHANGED loadFailed
    /\ spc' = [spc EXCEPT ![e] = "open"]
    /\ UNCHANGED <<pkl_file, writes, saveArg>>

\* Variant of save_open that holds a lock on the file: it sets its entry in
\* the dict the file holds at that time, not in the one it loaded.
save_open_Locked(e) ==
    /\ spc[e] = "open"
    /\ devices' = [devices EXCEPT ![e] = [pkl_file.ent EXCEPT ![e] = saveArg[e]]]
    /\ \E opened \in BOOLEAN :
          IF opened
          THEN /\ pkl_file' = EmptiedFile
               /\ spc' = [spc EXCEPT ![e] = "dump"]
          ELSE /\ spc' = [spc EXCEPT ![e] = "done"]
               /\ UNCHANGED pkl_file
    /\ UNCHANGED <<writes, loadFailed, saveArg>>

\* _save_binding lines 424-427 for engine e: devices[sn] = (hub_value,
\* relay_port), then open(pkl_file, 'wb'), which empties the file. An open
\* that raises (the path is a directory, a dangling link, ..) is caught by
\* the except clause of lines 432-433: nothing is written and _save_binding
\* returns.
save_open(e) ==
    /\ spc[e] = "open"
    /\ devices' = [devices EXCEPT ![e] = [devices[e] EXCEPT ![e] = saveArg[e]]]
    /\ \E opened \in BOOLEAN :
          IF opened
          THEN /\ pkl_file' = EmptiedFile
               /\ spc' = [spc EXCEPT ![e] = "dump"]
          ELSE /\ spc' = [spc EXCEPT ![e] = "done"]
               /\ UNCHANGED pkl_file
    /\ UNCHANGED <<writes, loadFailed, saveArg>>

\* _save_binding lines 428-433 for engine e: pickle.dump(devices, f) writes
\* the whole dict over the file. A dump that raises (no space left, ..) is
\* caught the same way: the file stays as the open, or another writer since,
\* left it.
save_dump(e) ==
    /\ spc[e] = "dump"
    /\ \E dumped \in BOOLEAN :
          IF dumped
          THEN /\ pkl_file' = FileOf(devices[e])
               /\ writes' = Append(writes, <<e, saveArg[e]>>)
          ELSE UNCHANGED <<pkl_file, writes>>
    /\ spc' = [spc EXCEPT ![e] = "done"]
    /\ UNCHANGED <<devices, loadFailed, saveArg>>

\* _save_binding as bind_device runs it after a probe that returned True.
SaveLoad ==
    /\ bpc = "save"
    /\ save_load("A")
    /\ UNCHANGED <<bpc, op, hub_value, relay_port_states, probeVars, reqLog,
                   bindResult, flashing, flashAbsent, pkl0, srvVars, recVars, libVars>>

SaveOpen ==
    /\ bpc = "save"
    /\ save_open("A")
    /\ IF spc'["A"] = "done"
       THEN BindReturn("True")
       ELSE UNCHANGED <<bpc, bindResult>>
    /\ UNCHANGED <<op, hub_value, relay_port_states, probeVars, reqLog,
                   flashing, flashAbsent, pkl0, srvVars, recVars, libVars>>

\* .. and the `return True` that follows it, whether or not the binding
\* was written.
SaveDump ==
    /\ bpc = "save"
    /\ save_dump("A")
    /\ BindReturn("True")
    /\ UNCHANGED <<op, hub_value, relay_port_states, probeVars, reqLog,
                   flashing, flashAbsent, pkl0, srvVars, recVars, libVars>>

\* Variant of release_device that reports success when there is nothing to
\* release.
release_device_MissingIsSuccess ==
    /\ bpc = "call"
    /\ op.kind = "release"
    /\ \/ /\ ~pkl_file.exists
          /\ BindReturn("True")
          /\ UNCHANGED <<devices, loadFailed>>
       \/ /\ pkl_file.exists
          /\ loadFailed' = TRUE
          /\ BindReturn("False")
          /\ UNCHANGED devices
       \/ /\ pkl_file.exists
          /\ ~pkl_file.truncated
          /\ devices' = [devices EXCEPT !["A"] = pkl_file.ent]
          /\ IF pkl_file.ent["A"] = NoEntry
             THEN BindReturn("True")
             ELSE /\ bpc' = "rel_send"
                  /\ UNCHANGED bindResult
          /\ UNCHANGED loadFailed
    /\ UNCHANGED <<op, hub_value, relay_port_states, probeVars, reqLog, flashing,
                   flashAbsent, pkl0, pkl_file, writes, spc, saveArg, srvVars,
                   recVars, libVars>>

\* release_device lines 165-190: the file must exist, load, and hold an
\* entry for the serial number.
release_device ==
    /\ bpc = "call"
    /\ op.kind = "release"
    /\ \/ /\ ~pkl_file.exists
          /\ BindReturn("False")
          /\ UNCHANGED <<devices, loadFailed>>
       \/ /\ pkl_file.exists
          /\ loadFailed' = TRUE
          /\ BindReturn("False")
          /\ UNCHANGED devices
       \/ /\ pkl_file.exists
          /\ ~pkl_file.truncated
          /\ devices' = [devices EXCEPT !["A"] = pkl_file.ent]
          /\ IF pkl_file.ent["A"] = NoEntry
             THEN BindReturn("False")
             ELSE /\ bpc' = "rel_send"
                  /\ UNCHANGED bindResult
          /\ UNCHANGED loadFailed
    /\ UNCHANGED <<op, hub_value, relay_port_states, probeVars, reqLog, flashing,
                   flashAbsent, pkl0, pkl_file, writes, spc, saveArg, srvVars,
                   recVars, libVars>>

\* What send_request can hand back for the SET_STATE request.
SetStateResponses == {StrResp(StrOK), StrResp(StrKO), NoneResp}

\* release_device lines 192-196: the SET_STATE request with value 0 for the
\* stored port is sent, and send_request waits in recv for the answer.
ReleaseSend ==
    /\ bpc = "rel_send"
    /\ reqLog' = Append(reqLog, Req(RELAY_SET_STATE_MSG, devices["A"]["A"][2], 0))
    /\ bpc' = "rel_wait"
    /\ UNCHANGED <<op, hub_value, relay_port_states, probeVars, bindResult,
                   flashing, flashAbsent, pkl0, saveVars, srvVars, recVars, libVars>>

\* release_device lines 196-200 and 206-208: send_request returns, or raises
\* when the server closed the connection without an answer; on 'OK' the
\* entry becomes (0, port), on anything else release_device returns False.
ReleaseRecv ==
    /\ bpc = "rel_wait"
    /\ \/ /\ BindReturn("raised")
          /\ UNCHANGED devices
       \/ \E response \in SetStateResponses :
             IF response = StrResp(StrOK)
             THEN /\ devices' = [devices EXCEPT
                                    !["A"]["A"] = <<0, devices["A"]["A"][2]>>]
                  /\ bpc' = "rel_open"
                  /\ UNCHANGED bindResult
             ELSE /\ BindReturn("False")
                  /\ UNCHANGED devices
    /\ UNCHANGED <<op, hub_value, relay_port_states, probeVars, reqLog, flashing,
                   flashAbsent, pkl0, pkl_file, writes, loadFailed, spc, saveArg,
                   srvVars, recVars, libVars>>

\* release_device line 201: open(pkl_file, 'wb') empties the file. It is in
\* no try block: an open that raises leaves release_device as an exception.
ReleaseOpen ==
    /\ bpc = "rel_open"
    /\ \E opened \in BOOLEAN :
          IF opened
          THEN /\ pkl_file' = EmptiedFile
               /\ bpc' = "rel_dump"
               /\ UNCHANGED bindResult
          ELSE /\ BindReturn("raised")
               /\ UNCHANGED pkl_file
    /\ UNCHANGED <<op, hub_value, relay_port_states, probeVars, reqLog, flashing,
                   flashAbsent, pkl0, writes, loadFailed, spc, devices, saveArg,
                   srvVars, recVars, libVars>>

\* release_device lines 202-205: pickle.dump(devices, f) and `return True`;
\* a dump that raises leaves release_device as an exception and the file as
\* the open left it.
ReleaseDump ==
    /\ bpc = "rel_dump"
    /\ \E dumped \in BOOLEAN :
          IF dumped
          THEN /\ pkl_file' = FileOf(devices["A"])
               /\ writes' = Append(writes, <<"A", devices["A"]["A"]>>)
               /\ BindReturn("True")
          ELSE /\ BindReturn("raised")
               /\ UNCHANGED <<pkl_file, writes>>
    /\ UNCHANGED <<op, hub_value, relay_port_states, probeVars, reqLog, flashing,
                   flashAbsent, pkl0, loadFailed, spc, devices, saveArg,
                   srvVars, recVars, libVars>>

BindNext ==
    \/ initialize
    \/ bind_device
    \/ bind_to_port_or_unbound
    \/ wait_for_download_process
    \/ FlashingEnds
    \/ bind_to_bound_port
    \/ ProbeDisconnect
    \/ ProbeConnect
    \/ ProbeWait
    \/ ProbeNext
    \/ SaveLoad
    \/ SaveOpen
    \/ SaveDump
    \/ release_device
    \/ ReleaseSend
    \/ ReleaseRecv
    \/ ReleaseOpen
    \/ ReleaseDump

BindStart == SrvInit /\ RecIdle /\ BindInit /\ LibIdle

BindSpec == BindStart /\ [][BindNext]_vars

\* ----------------------------------------------------------------------
\* Two binding engines on one host, each inside _save_binding for its own
\* serial number; the file JPORTS.PKL is what they share.
\* ----------------------------------------------------------------------
\* What engine e can be saving: its device's hub value and a port.
SaveArgs(e) ==
    {<<IF e = "A" THEN OwnHub ELSE OtherHub, p>> : p \in 1 .. NumPorts}

SaveInit ==
    /\ bpc = "idle"
    /\ op = NoOp
    /\ hub_value = 0
    /\ relay_port_states = <<>>
    /\ phase = "none"
    /\ todo = <<>>
    /\ pport = 0
    /\ times = 0
    /\ probeAtt = 0
    /\ reqLog = <<>>
    /\ bindResult = "none"
    /\ flashing = "none"
    /\ flashAbsent = FALSE
    /\ pkl_file \in BindingFiles
    /\ pkl0 = pkl_file
    /\ writes = <<>>
    /\ loadFailed = FALSE
    /\ spc = [e \in Serials |-> "idle"]
    /\ devices = [e \in Serials |-> EmptyDict]
    /\ saveArg = [e \in Serials |-> <<0, 0>>]

saveRest == <<bpc, op, hub_value, relay_port_states, probeVars, reqLog,
              bindResult, flashing, flashAbsent, pkl0, srvVars, recVars, libVars>>

\* Engine e calls _save_binding(hub_value, relay_port), line 407.
save_binding(e) ==
    /\ spc[e] = "idle"
    /\ \E a \in SaveArgs(e) : saveArg' = [saveArg EXCEPT ![e] = a]
    /\ spc' = [spc EXCEPT ![e] = "load"]
    /\ UNCHANGED <<pkl_file, writes, loadFailed, devices, saveRest>>

EngineLoad(e) == save_load(e) /\ UNCHANGED saveRest

EngineOpen(e) == save_open(e) /\ UNCHANGED saveRest

EngineDump(e) == save_dump(e) /\ UNCHANGED saveRest

SaveNext ==
    \E e \in Serials :
        save_binding(e) \/ EngineLoad(e) \/ EngineOpen(e) \/ EngineDump(e)

SaveStart == SrvInit /\ RecIdle /\ SaveInit /\ LibIdle

SaveSpec == SaveStart /\ [][SaveNext]_vars

\* ------------------------------------------------------ binding claims
\* Requests sent by bind_device / release_device: all but the GET_STATE
\* request of initialize().
CallReqs ==
    IF reqLog # <<>> /\ Head(reqLog).message = RELAY_GET_STATE_MSG
    THEN Tail(reqLog)
    ELSE reqLog

\* dict d with the entry of serial s set to v.
Upsert(d, s, v) == [d EXCEPT ![s] = v]

\* The already-bound check is on the first attempt of the first matching port.
FirstMatchFirstAttempt ==
    /\ op.kind = "bind"
    /\ phase = "bonded"
    /\ pport = Head(MatchingPorts)
    /\ probeAtt = 0

\* C12: when the hub-value token is present in relay_port_states and the
\* first probe attempt on the first matching port succeeds, bind_device
\* sends requests for that port only and writes exactly one binding entry,
\* serial number -> (hub value, that port).
C12_BondedPortOnly ==
    FirstMatchFirstAttempt =>
        /\ \A i \in 1 .. Len(CallReqs) : CallReqs[i].index = pport
        /\ bindResult = "True" =>
               /\ CallReqs = <<Req(RELAY_DISCONNECT_MSG, pport, 0),
                               Req(RELAY_CONNECT_MSG, pport, 0)>>
               /\ writes = << <<"A", <<hub_value, pport>>>> >>
               /\ pkl_file.exists
               /\ pkl_file.ent["A"] = <<hub_value, pport>>
        /\ bindResult # "True" => writes = <<>>

\* The first attempt on the first matching port succeeded and bind_device
\* returned True, but open(pkl_file, 'wb') had raised: no entry was written
\* and the file is as the call found it.
C12_Witness ==
    /\ FirstMatchFirstAttempt
    /\ bindResult = "True"
    /\ hub_value = OwnHub
    /\ CallReqs = <<Req(RELAY_DISCONNECT_MSG, pport, 0),
                    Req(RELAY_CONNECT_MSG, pport, 0)>>
    /\ spc["A"] = "done"
    /\ writes = <<>>
    /\ pkl_file = pkl0

\* Auto-detect bind_device with at least one port, every port occupied and
\* no token equal to the device's own.
AllOccupiedNoMatch ==
    /\ op.kind = "bind"
    /\ op.port = 0
    /\ bpc # "init"
    /\ relay_port_states # <<>>
    /\ UnboundPorts = <<>>
    /\ MatchingPorts = <<>>

\* C13: in bind_device with every port occupied and no matching token, no
\* occupied port is probed while the flashing process exists; the first
\* probe of an occupied port happens only after a poll has observed the
\* process absent.
C13_ProbeAfterFlashingGone ==
    AllOccupiedNoMatch =>
        /\ (CallReqs # <<>> \/ phase # "none") => (flashAbsent /\ phase = "bound")
        /\ flashing = "running" => (CallReqs = <<>> /\ phase = "none")
        /\ flashAbsent => flashing # "running"

\* The flashing process runs, the poll did not find it (no pywin32, or a
\* WMI query that raised), and an occupied port was probed.
C13_Witness ==
    /\ AllOccupiedNoMatch
    /\ flashing = "running"
    /\ flashAbsent
    /\ phase = "bound"
    /\ Len(CallReqs) >= 2

\* bind_device returned True from the scan of the occupied ports, on a port
\* whose token is neither '00' nor the device's own.
BoundOnOccupiedPort ==
    /\ op.kind = "bind"
    /\ bindResult = "True"
    /\ phase = "bound"
    /\ relay_port_states[pport] \notin {FreeToken, hub_value_str}

\* C14: when bind_device succeeds by probing an occupied port, that port is
\* rebound to the new device's hub value (a SET_STATE request for the port
\* carrying the hub value) and the prior occupant's binding is zeroed out.
C14_OccupiedPortRebound ==
    BoundOnOccupiedPort =>
        /\ \E i \in 1 .. Len(CallReqs) :
               CallReqs[i] = Req(RELAY_SET_STATE_MSG, pport, hub_value)
        /\ \A s \in Serials \ {"A"} :
               (pkl0.ent[s] # NoEntry /\ pkl0.ent[s][2] = pport)
                   => pkl_file.ent[s] = <<0, pport>>

\* The device was bound to the port another serial number is stored on; no
\* SET_STATE request was sent and the other entry is as it was.
C14_Witness ==
    /\ BoundOnOccupiedPort
    /\ ~loadFailed
    /\ pkl0.ent["B"] = <<OtherHub, pport>>
    /\ pkl_file.ent["B"] = <<OtherHub, pport>>
    /\ pkl_file.ent["A"] = <<hub_value, pport>>
    /\ \A i \in 1 .. Len(CallReqs) : CallReqs[i].message # RELAY_SET_STATE_MSG

\* bind_device is over and no probe of it returned True (no _save_binding
\* was started).
BindEndedNoProbeSucceeded ==
    /\ op.kind = "bind"
    /\ bpc = "done"
    /\ spc["A"] = "idle"

\* C15: if every probe in every phase of bind_device fails, bind_device
\* returns False as a value (it does not raise) and leaves the binding
\* store exactly as it was before the call.
C15_AllProbesFailReturnsFalse ==
    BindEndedNoProbeSucceeded => (bindResult = "False" /\ pkl_file = pkl0)

\* bind_device ended by an exception of a probe's relay request.
C15_Witness ==
    /\ BindEndedNoProbeSucceeded
    /\ bindResult = "raised"
    /\ CallReqs # <<>>
    /\ pkl_file = pkl0

\* release_device was called and the store, as the call found it, has no
\* entry for the serial number or does not exist.
ReleaseOfUnbound ==
    /\ op.kind = "release"
    /\ bpc # "init"
    /\ (~pkl0.exists \/ pkl0.ent["A"] = NoEntry)

\* C16: release_device for a serial number without an entry in the binding
\* store (or without a store) fails, sends no relay request and leaves the
\* store unchanged.
C16_ReleaseUnboundFails ==
    ReleaseOfUnbound =>
        /\ CallReqs = <<>>
        /\ pkl_file = pkl0
        /\ writes = <<>>
        /\ bpc \notin {"rel_send", "rel_wait", "rel_open", "rel_dump"}
        /\ bpc = "done" => bindResult = "False"

\* release_device returned for a store that holds another serial number only.
C16_Witness ==
    /\ ReleaseOfUnbound
    /\ bpc = "done"
    /\ pkl0.exists
    /\ pkl0.ent["B"] # NoEntry
    /\ ~loadFailed

\* release_device has ended for a serial number whose entry it loaded.
ReleaseOfBoundEnded ==
    /\ op.kind = "release"
    /\ bpc = "done"
    /\ pkl0.exists
    /\ pkl0.ent["A"] # NoEntry
    /\ ~loadFailed

\* C17: release_device for a serial number bound to (h, p) sends exactly one
\* SET_STATE request carrying port p and value 0; it returns success with
\* the entry set to (0, p) and all other entries unchanged, or (on any reply
\* but 'OK', no response included) returns failure with the store unchanged.
C17_ReleaseOneSetState ==
    ReleaseOfBoundEnded =>
        /\ CallReqs = <<Req(RELAY_SET_STATE_MSG, pkl0.ent["A"][2], 0)>>
        /\ bindResult \in {"True", "False"}
        /\ bindResult = "True" =>
               pkl_file = FileOf(Upsert(pkl0.ent, "A", <<0, pkl0.ent["A"][2]>>))
        /\ bindResult = "False" => pkl_file = pkl0

\* The server closed the connection of the SET_STATE request without a
\* response and release_device ended by the exception.
C17_Witness ==
    /\ ReleaseOfBoundEnded
    /\ bindResult = "raised"
    /\ CallReqs = <<Req(RELAY_SET_STATE_MSG, pkl0.ent["A"][2], 0)>>
    /\ pkl_file = pkl0

\* C18: every serial number that had an entry in the binding store before
\* a bind_device or release_device still has one after it, including when
\* the existing store cannot be read.
C18_EntriesNeverDropped ==
    \A s \in Serials :
        (pkl0.exists /\ pkl0.ent[s] # NoEntry)
            => (pkl_file.exists /\ pkl_file.ent[s] # NoEntry)

\* _save_binding could not load the existing file and dumped a dict that
\* holds the caller's entry only: the other serial number's entry is gone.
C18_Witness ==
    /\ op.kind = "bind"
    /\ bindResult = "True"
    /\ loadFailed
    /\ pkl0.ent["B"] = <<OtherHub, 4>>
    /\ pkl_file.ent["B"] = NoEntry
    /\ pkl_file.ent["A"] = <<hub_value, pport>>

\* C19: every port index carried by a task sent to the arbiter, and every
\* port index written to the binding store, lies in 1 .. N, N = 5 being the
\* board's port count.
C19_PortIndexInRange ==
    /\ \A i \in 1 .. Len(reqLog) : reqLog[i].index \in 1 .. NumPorts
    /\ \A s \in Serials :
           pkl_file.ent[s] # NoEntry => pkl_file.ent[s][2] \in 1 .. NumPorts

\* bind_device(port=7) probed port 7 by index and stored it.
C19_Witness ==
    /\ op.kind = "bind"
    /\ op.port = 7
    /\ bindResult = "True"
    /\ Req(RELAY_DISCONNECT_MSG, 7, 0) \in {CallReqs[i] : i \in 1 .. Len(CallReqs)}
    /\ pkl_file.ent["A"] = <<hub_value, 7>>

\* Both engines have run _save_binding to its end and both dumps succeeded,
\* one after the other.
BothDumped ==
    /\ \A e \in Serials : spc[e] = "done"
    /\ Len(writes) = 2
    /\ writes[1][1] # writes[2][1]

\* C20: _save_binding reads, modifies and writes the file without a lock.
\* Whatever the other engine does to the file, what an engine holds for the
\* other serial number stays what its own load found, from that load to its
\* dump; so, once both engines have dumped, the file is the dict of the
\* engine that dumped last: its own entry, and for the other serial number
\* what its load found, which is the other engine's entry only when that
\* load came after the other engine's dump. Otherwise the update of the
\* engine that dumped first is lost (C20_Witness).
C20_LastDumpOverwrites ==
    /\ [][ \A e \in Serials : \A o \in Serials \ {e} :
               spc[e] \in {"open", "dump"} => devices'[e][o] = devices[e][o] ]_vars
    /\ [](BothDumped =>
             LET first == writes[1][1]
                 last == writes[2][1]
             IN  /\ pkl_file = FileOf(devices[last])
                 /\ pkl_file.ent[last] = saveArg[last]
                 /\ pkl_file.ent[first] = devices[last][first]
                 /\ pkl_file.ent[first] \in {saveArg[first], pkl0.ent[first], NoEntry})

\* Both engines have dumped, starting without a file and with every load
\* succeeding, and the file holds the entry of the engine that dumped last
\* only: the entry the other engine dumped is gone.
C20_Witness ==
    /\ BothDumped
    /\ ~loadFailed
    /\ pkl0 = NoFile
    /\ LET first == writes[1][1]
           last == writes[2][1]
       IN  /\ writes[1][2] = saveArg[first]
           /\ pkl_file.ent[last] = saveArg[last]
           /\ pkl_file.ent[first] = NoEntry

\* ---------------------------------------------------------------------------
\* ProtocolFrameBuilder (relay/hardware/protocol.py), one call after another.
\* The builder keeps no state (its __init__ is `pass`): every build_* method
\* makes a new list from its arguments and the class constants.

Bytes == 0 .. 255

\* One call of a builder: the method and its arguments (0 where the method
\* takes fewer than three).
BuilderCall(m, a, b, c) == [method |-> m, a |-> a, b |-> b, c |-> c]

\* Arguments the first call is made with.
IndexArgs == (1 .. NumPorts) \cup {0, DEVICE_DEFAULT_INDEX, 255}
ModeArgs == {CMD_OFF, CMD_ALL}
BuilderCalls ==
    {BuilderCall("build_basic_frame", i, m, s) :
        i \in IndexArgs, m \in ModeArgs, s \in Bytes}
    \cup {BuilderCall(m, h, 0, 0) :
        m \in {"build_usb_on_by_value", "build_usb_off_by_value"}, h \in Bytes}
    \cup {BuilderCall(m, i, 0, 0) :
        m \in {"build_usb_on_by_index", "build_usb_off_by_index"},
        i \in 1 .. NumPorts}
    \cup {BuilderCall("build_set_port_state", p, h, 0) :
        p \in 1 .. NumPorts, h \in Bytes}
    \cup {BuilderCall("build_success_response", p, 0, 0) : p \in Bytes}
    \cup {BuilderCall("build_get_port_states", 0, 0, 0)}

\* Arguments of the calls that follow the first one.
LaterCalls ==
    { BuilderCall("build_get_port_states", 0, 0, 0),
      BuilderCall("build_basic_frame", 1, CMD_ALL, CMD_ON),
      BuilderCall("build_usb_off_by_value", OwnHub, 0, 0),
      BuilderCall("build_set_port_state", 2, OtherHub, 0),
      BuilderCall("build_success_response", 1, 0, 0) }

\* What the called method returns.
builder_result(call) ==
    CASE call.method = "build_basic_frame" ->
            build_basic_frame(call.a, call.b, call.c)
      [] call.method = "build_usb_on_by_value" -> build_usb_on_by_value(call.a)
      [] call.method = "build_usb_off_by_value" -> build_usb_off_by_value(call.a)
      [] call.method = "build_usb_on_by_index" -> build_usb_on_by_index(call.a)
      [] call.method = "build_usb_off_by_index" -> build_usb_off_by_index(call.a)
      [] call.method = "build_set_port_state" ->
            build_set_port_state(call.a, call.b)
      [] call.method = "build_success_response" ->
            build_success_response(call.a)
      [] call.method = "build_get_port_states" -> build_get_port_states

\* codec.pc: "call" (a method was called), "built" (it returned codec.frame).
\* codec.prev is what the call before it returned, <<>> for the first call.
CodecInit ==
    \E call \in BuilderCalls :
        codec = [pc |-> "call", call |-> call, frame |-> <<>>, prev |-> <<>>]

\* The method runs and returns.
BuilderReturn ==
    /\ codec.pc = "call"
    /\ codec' = [codec EXCEPT !.pc = "built",
                              !.frame = builder_result(codec.call)]
    /\ UNCHANGED <<chan, cli, srvVars, recVars, bindVars>>

\* The same builder object is called again.
BuilderCallAgain ==
    /\ codec.pc = "built"
    /\ \E call \in LaterCalls :
          codec' = [pc |-> "call", call |-> call, frame |-> <<>>,
                    prev |-> codec.frame]
    /\ UNCHANGED <<chan, cli, srvVars, recVars, bindVars>>

CodecNext == BuilderReturn \/ BuilderCallAgain

CodecStart ==
    /\ SrvInit /\ RecIdle /\ BindIdle
    /\ CodecInit
    /\ chan = [pc |-> "idle"]
    /\ cli = [pc |-> "idle"]

CodecSpec == CodecStart /\ [][CodecNext]_vars

\* ---------------------------------------------------------------------------
\* Claims about the frame builders (CodecSpec)

\* Bit k of the byte b.
ByteBit(b, k) == (b \div (2 ^ k)) % 2

\* Bit k of the XOR of the bytes bs: 1 iff an odd number of them has bit k.
ParityBit(bs, k) == Cardinality({i \in DOMAIN bs : ByteBit(bs[i], k) = 1}) % 2

\* The XOR-fold of the bytes bs, bit by bit.
XorFold(bs) ==
    ParityBit(bs, 0) + (2 * ParityBit(bs, 1)) + (4 * ParityBit(bs, 2))
    + (8 * ParityBit(bs, 3)) + (16 * ParityBit(bs, 4)) + (32 * ParityBit(bs, 5))
    + (64 * ParityBit(bs, 6)) + (128 * ParityBit(bs, 7))

\* The value of a two-digit hex token.
HexDigitValue(ch) == CHOOSE v \in 0 .. 15 : HexDigits[v + 1] = ch
HexByte(tok) == (16 * HexDigitValue(tok[1])) + HexDigitValue(tok[2])

\* A build has returned.
Built == codec.pc = "built"
BuiltBy(m) == Built /\ codec.call.method = m

\* The bytes of the frame the last build returned; the success response
\* comes as a hex string and is read back token by token.
BuiltBytes ==
    IF codec.call.method = "build_success_response"
    THEN LET toks == split(codec.frame, " ")
         IN  [i \in 1 .. Len(toks) |-> HexByte(toks[i])]
    ELSE codec.frame

\* C26: in every frame a builder returns (index frame, hub-value frame on and
\* off, bind frame, state query, success response), on the first build and on
\* every later one, the byte before the end byte is the XOR-fold of all the
\* bytes before it and lies in 0..255; in the success response it is rendered
\* as two hex digits.
C26_ChecksumIsXorFold ==
    Built =>
        LET bs == BuiltBytes
            n == Len(bs)
        IN  /\ n >= 3
            /\ bs[n - 1] = XorFold(SubSeq(bs, 1, n - 2))
            /\ bs[n - 1] \in 0 .. 255
            /\ codec.call.method = "build_success_response" =>
                  \A i \in 1 .. n : Len(split(codec.frame, " ")[i]) = 2

\* A later build whose checksum differs from the one of the build before it.
C26_Witness ==
    /\ BuiltBy("build_usb_off_by_value")
    /\ Len(codec.prev) = 7
    /\ codec.prev[6] # codec.frame[7]
    /\ codec.frame[7] = XorFold(SubSeq(codec.frame, 1, 6))

\* What a request frame says, read back field by field from the wire layout:
\* eight bytes make a hub-value frame, command byte 0x20 a bind frame, and
\* anything else an index frame.
decode(f) ==
    IF f[2] = 8
    THEN [kind |-> "hub", hub_value |-> f[4], on |-> (f[6] = 255)]
    ELSE IF f[3] = 32
    THEN [kind |-> "bind", port_index |-> f[4], hub_value |-> f[5]]
    ELSE [kind |-> "index", index |-> f[3], mode |-> f[4], state |-> f[5]]

\* What the caller asked the builder to encode.
Encoded(call) ==
    CASE call.method = "build_basic_frame" ->
            [kind |-> "index", index |-> call.a, mode |-> call.b, state |-> call.c]
      [] call.method = "build_usb_on_by_index" ->
            [kind |-> "index", index |-> call.a, mode |-> 64, state |-> 255]
      [] call.method = "build_usb_off_by_index" ->
            [kind |-> "index", index |-> call.a, mode |-> 64, state |-> 0]
      [] call.method = "build_usb_on_by_value" ->
            [kind |-> "hub", hub_value |-> call.a, on |-> TRUE]
      [] call.method = "build_usb_off_by_value" ->
            [kind |-> "hub", hub_value |-> call.a, on |-> FALSE]
      [] call.method = "build_set_port_state" ->
            [kind |-> "bind", port_index |-> call.a, hub_value |-> call.b]

RequestMethods ==
    {"build_basic_frame", "build_usb_on_by_index", "build_usb_off_by_index",
     "build_usb_on_by_value", "build_usb_off_by_value", "build_set_port_state"}

\* Byte-valued fields, and an index that names a port or the state query.
WellFormed(call) ==
    /\ call.method \in RequestMethods
    /\ call.a \in 0 .. 255 /\ call.b \in 0 .. 255 /\ call.c \in 0 .. 255
    /\ call.method = "build_basic_frame" =>
          call.a \in (1 .. NumPorts) \cup {DEVICE_DEFAULT_INDEX}

\* C27: for every well-formed input (an index/mode/state triple, a hub value
\* with on or off, a port index with a hub value), reading the built frame
\* back gives the input: decode(encode(x)) = x.
C27_RoundTrip ==
    (Built /\ WellFormed(codec.call)) => decode(codec.frame) = Encoded(codec.call)

\* A bind frame with distinct field values was built and read back.
C27_Witness ==
    /\ BuiltBy("build_set_port_state")
    /\ WellFormed(codec.call)
    /\ codec.call.a = 2 /\ codec.call.b = 26
    /\ decode(codec.frame).kind = "bind"

\* C28: build_get_port_states returns exactly 7E 07 06 00 00 7F 55 whatever
\* was built before, and that is the index frame for (6, 0, 0), so its
\* checksum byte follows the XOR rule.
C28_QueryFrameLiteral ==
    BuiltBy("build_get_port_states") =>
        /\ codec.frame = <<126, 7, 6, 0, 0, 127, 85>>
        /\ codec.frame = build_basic_frame(6, 0, 0)
        /\ codec.frame[6] = XorFold(SubSeq(codec.frame, 1, 5))

\* The query frame was built after another frame.
C28_Witness ==
    /\ BuiltBy("build_get_port_states")
    /\ codec.prev # <<>>
    /\ codec.prev # codec.frame

\* C29: every request frame starts with 0x7E, ends with 0x55 and carries its
\* own byte count as second byte, 7 for index and bind frames and 8 for
\* hub-value frames; a hub-value frame carries 0x21, the hub value, 0x10 and
\* 0xFF (on) or 0x00 (off) in that order, a bind frame 0x20, the port index
\* and the hub value.
C29_FrameShape ==
    (Built /\ codec.call.method # "build_success_response") =>
        LET f == codec.frame
            m == codec.call.method
            byValue == m \in {"build_usb_on_by_value", "build_usb_off_by_value"}
        IN  /\ f[1] = 126
            /\ f[Len(f)] = 85
            /\ f[2] = Len(f)
            /\ Len(f) = IF byValue THEN 8 ELSE 7
            /\ byValue =>
                  /\ f[3] = 33 /\ f[4] = codec.call.a /\ f[5] = 16
                  /\ f[6] = IF m = "build_usb_on_by_value" THEN 255 ELSE 0
            /\ m = "build_set_port_state" =>
                  /\ f[3] = 32 /\ f[4] = codec.call.a /\ f[5] = codec.call.b

\* A hub-value "on" frame was built.
C29_Witness ==
    /\ BuiltBy("build_usb_on_by_value")
    /\ codec.call.a = 26
    /\ Len(codec.frame) = 8

\* ---------------------------------------------------------------------------
\* SerialCommunicator (relay/hardware/serial_comm.py) on its own, called by
\* one thread: send_data, receive_data, execute_command,
\* get_all_port_states and close.
\*
\* chan.serial     self._serial: "None", or "open" for a Serial object
\*                 (every Serial object the class holds is open: close()
\*                 drops the object it closes)
\* chan.io         what was done to the port, in order: <<"w", frame>> for a
\*                 write + flush, <<"r", bytes>> for a readall
\* chan.rx         bytes the port holds for the next readall
\* chan.pending    a frame was written that the board has not answered
\* chan.op, chan.frame_data   the call in progress or the last call
\* chan.pc         "ready" between calls, "sleep" inside execute_command
\*                 between send_data and receive_data
\* chan.ret        how the last call ended, chan.output what its readall got
\* chan.was_open   is_open at the moment of the last call
\* chan.opened     the port was open at some time

\* frame_data arguments handed to send_data and execute_command.
ChanFrames == {build_get_port_states, build_usb_on_by_value(OwnHub)}

\* What the board answers a frame with (it may also stay silent): a single
\* byte, a reply shorter than the state window, a state report for five
\* ports, and a state report followed by further bytes.
ChanReplies ==
    { <<FRAME_HEAD>>,
      <<FRAME_HEAD, FRAME_RESPONSE, 6, 6, OwnHub, FRAME_END>>,
      BoardFrame(<<FRAME_HEAD, FRAME_RESPONSE, 11, 6, 0, OwnHub, 0, 0, OtherHub>>),
      BoardFrame(<<FRAME_HEAD, FRAME_RESPONSE, 11, 6, 1, 2, 3, 4, 5>>)
          \o <<FRAME_HEAD, FRAME_RESPONSE>> }

NoReturn == [kind |-> "none", val |-> <<>>]
Returned(v) == [kind |-> "returned", val |-> v]
RuntimeError == [kind |-> "RuntimeError", val |-> <<>>]

\* The is_open property, lines 92-95.
is_open == chan.serial = "open"

\* __init__, lines 28-74, with auto_connect False or True.
ChanInit ==
    \E s \in {"None", "open"} :
        chan = [pc |-> "ready", serial |-> s, io |-> <<>>, rx |-> <<>>,
                pending |-> FALSE, op |-> "none", frame_data |-> <<>>,
                ret |-> NoReturn, output |-> <<>>, was_open |-> FALSE,
                opened |-> (s = "open"), n |-> 0]

\* A call starts: what every method does to the record first.
ChanCall(name, frame_data) ==
    [chan EXCEPT !.op = name, !.frame_data = frame_data, !.output = <<>>,
                 !.was_open = is_open, !.n = chan.n + 1]

chanRest == <<codec, cli, srvVars, recVars, bindVars>>

\* Variant of send_data that writes before it looks at is_open.
send_data_WriteFirst ==
    /\ chan.pc = "ready"
    /\ chan.n < MaxCalls
    /\ \E frame_data \in ChanFrames :
          LET c == [ChanCall("send_data", frame_data) EXCEPT
                       !.io = Append(chan.io, <<"w", frame_data>>)]
          IN  chan' = IF ~is_open
                      THEN [c EXCEPT !.ret = RuntimeError]
                      ELSE [c EXCEPT !.pending = TRUE, !.ret = Returned(<<>>)]
    /\ UNCHANGED chanRest

\* send_data(frame_data), lines 97-114.
send_data ==
    /\ chan.pc = "ready"
    /\ chan.n < MaxCalls
    /\ \E frame_data \in ChanFrames :
          LET c == ChanCall("send_data", frame_data)
          IN  chan' = IF ~is_open
                      THEN [c EXCEPT !.ret = RuntimeError]
                      ELSE [c EXCEPT !.io = Append(chan.io, <<"w", frame_data>>),
                                     !.pending = TRUE,
                                     !.ret = Returned(<<>>)]
    /\ UNCHANGED chanRest

\* The readall of receive_data, lines 129-130, on an open port.
ReadAll(c) ==
    [c EXCEPT !.io = Append(c.io, <<"r", c.rx>>), !.output = c.rx, !.rx = <<>>]

\* receive_data(), lines 116-135, called directly.
chan_receive_data ==
    /\ chan.pc = "ready"
    /\ chan.n < MaxCalls
    /\ LET c == ChanCall("receive_data", <<>>)
       IN  chan' = IF ~is_open
                   THEN [c EXCEPT !.ret = RuntimeError]
                   ELSE [ReadAll(c) EXCEPT !.ret = Returned(receive_data(c.rx))]
    /\ UNCHANGED chanRest

\* execute_command(frame_data), lines 137-149, up to its time.sleep(0.1);
\* get_all_port_states(), lines 207-219, calls it with the query frame.
execute_command ==
    /\ chan.pc = "ready"
    /\ chan.n < MaxCalls
    /\ \E name \in {"execute_command", "get_all_port_states"} :
       \E frame_data \in ChanFrames :
          /\ name = "get_all_port_states" => frame_data = build_get_port_states
          /\ LET c == ChanCall(name, frame_data)
             IN  chan' = IF ~is_open
                         THEN [c EXCEPT !.ret = RuntimeError]
                         ELSE [c EXCEPT !.io = Append(chan.io, <<"w", frame_data>>),
                                        !.pending = TRUE,
                                        !.ret = NoReturn,
                                        !.pc = "sleep"]
    /\ UNCHANGED chanRest

\* The rest of execute_command: receive_data() after the sleep, and for
\* get_all_port_states the split of the response.
execute_command_return ==
    /\ chan.pc = "sleep"
    /\ LET response == receive_data(chan.rx)
       IN  chan' = [ReadAll(chan) EXCEPT
                       !.pc = "ready",
                       !.ret = IF chan.op = "get_all_port_states"
                               THEN Returned(get_all_port_states(response))
                               ELSE Returned(response)]
    /\ UNCHANGED chanRest

\* The board answers the frame it was sent.
BoardAnswers ==
    /\ chan.pending
    /\ \E bytes \in ChanReplies :
          chan' = [chan EXCEPT !.rx = chan.rx \o bytes, !.pending = FALSE]
    /\ UNCHANGED chanRest

\* Variant of close that has no test of self._serial.
close_Unguarded ==
    /\ chan.pc = "ready"
    /\ chan.n < MaxCalls
    /\ LET c == ChanCall("close", <<>>)
       IN  chan' = IF is_open
                   THEN [c EXCEPT !.serial = "None", !.rx = <<>>,
                                  !.pending = FALSE, !.ret = Returned(<<>>)]
                   ELSE [c EXCEPT !.ret = [kind |-> "AttributeError", val |-> <<>>]]
    /\ UNCHANGED chanRest

\* close(), lines 236-241 (also what __exit__ and __del__ run).
close ==
    /\ chan.pc = "ready"
    /\ chan.n < MaxCalls
    /\ LET c == ChanCall("close", <<>>)
       IN  chan' = IF is_open
                   THEN [c EXCEPT !.serial = "None", !.rx = <<>>,
                                  !.pending = FALSE, !.ret = Returned(<<>>)]
                   ELSE [c EXCEPT !.ret = Returned(<<>>)]
    /\ UNCHANGED chanRest

ChanNext ==
    \/ send_data
    \/ chan_receive_data
    \/ execute_command
    \/ execute_command_return
    \/ BoardAnswers
    \/ close

ChanStart ==
    /\ SrvInit /\ RecIdle /\ BindIdle
    /\ ChanInit
    /\ codec = [pc |-> "idle"]
    /\ cli = [pc |-> "idle"]

ChanSpec == ChanStart /\ [][ChanNext]_vars

\* ---------------------------------------------------------------------------
\* Claims about the serial channel (ChanSpec)

ExchangeOps == {"send_data", "receive_data", "execute_command", "get_all_port_states"}

\* This step is the call of an exchange method on a channel that is not open.
ExchangeCalledClosed ==
    /\ chan.pc = "ready"
    /\ ~is_open
    /\ chan'.n = chan.n + 1
    /\ chan'.op \in ExchangeOps

\* C23: send_data, receive_data and execute_command (also through
\* get_all_port_states) called on a channel that is not open end with an
\* error, do nothing to the port, and leave the channel closed.
C23_ClosedChannelFails ==
    [][ExchangeCalledClosed =>
          /\ chan'.ret = RuntimeError
          /\ chan'.io = chan.io
          /\ chan'.serial = "None"
          /\ chan'.pc = "ready"]_vars

\* execute_command failed on a channel that was written to and then closed.
C23_Witness ==
    /\ chan.op = "execute_command"
    /\ ~chan.was_open
    /\ chan.opened
    /\ chan.ret = RuntimeError
    /\ chan.io # <<>>

\* C24: whenever close() has been called, whether the channel was open,
\* already closed or never opened, the call returned without an exception
\* and the channel is closed (is_open is false).
C24_CloseIdempotent ==
    chan.op = "close" => (chan.ret = Returned(<<>>) /\ ~is_open)

\* close() was called on a channel that an earlier close() had closed.
C24_Witness ==
    /\ chan.op = "close"
    /\ chan.opened
    /\ ~chan.was_open
    /\ chan.ret = Returned(<<>>)

\* C25: when execute_command has returned, the port saw the write of the
\* whole frame and then the read, nothing between them, the call returned
\* the hex rendering of all the bytes the read found, and it returned the
\* empty string only when the read found no byte.
C25_ExchangeReturnsAllBytes ==
    (chan.op = "execute_command" /\ chan.ret.kind = "returned") =>
        LET k == Len(chan.io)
        IN  /\ k >= 2
            /\ chan.io[k - 1] = <<"w", chan.frame_data>>
            /\ chan.io[k] = <<"r", chan.output>>
            /\ chan.ret.val = bytes_to_hex_string(chan.output)
            /\ chan.ret.val = <<>> => chan.output = <<>>

\* execute_command returned the empty string although the read found a byte.
C25_Witness ==
    /\ chan.op = "execute_command"
    /\ chan.ret = Returned(<<>>)
    /\ Len(chan.output) = 1
    /\ chan.io[Len(chan.io)] = <<"r", chan.output>>

\* C30: get_all_port_states returns, in order, the two-digit hex tokens of
\* the bytes at positions 4 to 8 (counted from 0) of what the board's reply
\* held, as many of them as the reply has: token i (from 0) is the byte at
\* position 4 + i, the state of port i + 1, and there are never more than 5.
C30_StateWindow ==
    (chan.op = "get_all_port_states" /\ chan.ret.kind = "returned") =>
        LET bytes == chan.output
            toks == chan.ret.val
        IN  /\ Len(toks) <= 5
            /\ Len(toks) = IF Len(bytes) <= 4 THEN 0
                           ELSE IF Len(bytes) >= 9 THEN 5
                           ELSE Len(bytes) - 4
            /\ \A i \in 1 .. Len(toks) : toks[i] = Hex2(bytes[4 + i])

\* A reply longer than the state report gave the five tokens of the ports.
C30_Witness ==
    /\ chan.op = "get_all_port_states"
    /\ chan.ret = Returned(<<Hex2(1), Hex2(2), Hex2(3), Hex2(4), Hex2(5)>>)
    /\ Len(chan.output) > 11

\* ---------------------------------------------------------------------------
\* RelayClient.send_request (relay/client.py, lines 38-72), one call, with the
\* peer it talks to.
\*
\* cli.pc        "call", "connected" (connect returned), "sent" (send
\*               returned), "done" (send_request returned or raised)
\* cli.task      the task argument, cli.timeout_arg the timeout argument
\* cli.timeout   what settimeout was called with
\* cli.conns     connect() calls, cli.sends send() calls, cli.closes close()
\*               calls of this send_request
\* cli.peer      the server's side of the connection: "none", "got" (the
\*               request is in the server: in the backlog, or being
\*               handled), "responded", "dropped" (closed with no
\*               response), "reset", "garbage"
\* cli.exchanges frames the server wrote to the board for this request
\* cli.data      the response the server sent
\* cli.failure   which transport failure the call met, "none" if none
\* cli.ret       how send_request ended

\* self.timeout = 5.0 of RelayClient.__init__ (seconds).
CLIENT_TIMEOUT == 5

\* Values of the timeout argument: 0 stands for both None and 0.
TimeoutArgs == {0, 2}

CliRunning == [kind |-> "none", val |-> NoneResp]
CliReturned(v) == [kind |-> "returned", val |-> v]
CliRaised(e) == [kind |-> e, val |-> NoneResp]

CliInit ==
    \E task \in Tasks : \E t \in TimeoutArgs :
        cli = [pc |-> "call", task |-> task, timeout_arg |-> t, timeout |-> 0,
               conns |-> 0, sends |-> 0, closes |-> 0, peer |-> "none",
               exchanges |-> 0, data |-> <<>>, failure |-> "none",
               ret |-> CliRunning]

cliRest == <<codec, chan, srvVars, recVars, bindVars>>

\* An except clause and the finally of send_request: the connection is
\* closed and None is returned.
CliFail(c, why) ==
    [c EXCEPT !.pc = "done", !.failure = why, !.closes = c.closes + 1,
              !.ret = CliReturned(NoneResp)]

\* Lines 52-54: socket(), settimeout(timeout or self.timeout), connect().
\* When socket() itself raises OSError (no descriptor left, ..) there is no
\* connection to connect or to close: the except clause returns None and
\* the finally finds `connection` None.
client_connect ==
    /\ cli.pc = "call"
    /\ LET c == [cli EXCEPT !.conns = cli.conns + 1,
                            !.timeout = IF cli.timeout_arg # 0
                                        THEN cli.timeout_arg
                                        ELSE CLIENT_TIMEOUT]
       IN  \E outcome \in {"ok", "refused", "timeout", "no socket"} :
              cli' = CASE outcome = "ok" -> [c EXCEPT !.pc = "connected"]
                       [] outcome = "no socket" ->
                             [cli EXCEPT !.pc = "done", !.failure = outcome,
                                         !.ret = CliReturned(NoneResp)]
                       [] OTHER -> CliFail(c, outcome)
    /\ UNCHANGED cliRest

\* Lines 56-58: pickle.dumps(task) and send(data).
client_send ==
    /\ cli.pc = "connected"
    /\ LET c == [cli EXCEPT !.sends = cli.sends + 1]
       IN  \E outcome \in {"ok", "send_error"} :
              cli' = IF outcome = "ok"
                     THEN [c EXCEPT !.pc = "sent", !.peer = "got"]
                     ELSE CliFail(c, outcome)
    /\ UNCHANGED cliRest

\* Variant of PeerExchange in which the server writes the frame of a request
\* once more (an exchange that is tried again).
PeerExchange_Again ==
    /\ cli.peer = "got"
    /\ cli.exchanges < 2
    /\ process_task_frame(cli.task) # <<>>
    /\ cli' = [cli EXCEPT !.exchanges = cli.exchanges + 1]
    /\ UNCHANGED cliRest

\* The server has taken the request from the backlog, decoded it and
\* dispatched it (RelayTaskManager._handle_connection lines 161-177), and
\* send_data has written the frame of a known kind to the board: the server
\* is now in the sleep or the read of execute_command.
PeerExchange ==
    /\ cli.peer = "got"
    /\ cli.exchanges = 0
    /\ process_task_frame(cli.task) # <<>>
    /\ cli' = [cli EXCEPT !.exchanges = 1]
    /\ UNCHANGED cliRest

\* The server ends the connection (_handle_connection lines 177-190): it
\* sends the result once the exchange, if the kind has one, has been done;
\* it sends "KO" when the write or the read of the exchange raised with the
\* channel still open (_task_handler's except clause); or it closes the
\* connection with no response (request it cannot handle, task pipeline
\* ended, response that could not be sent). A peer may also reset the
\* connection, and a peer that is no arbiter may send bytes that are no
\* pickle.
PeerAnswer ==
    /\ cli.peer = "got"
    /\ \/ /\ cli.exchanges = IF process_task_frame(cli.task) # <<>> THEN 1 ELSE 0
          /\ \E bytes \in BoardReplies :
                cli' = [cli EXCEPT
                          !.peer = "responded",
                          !.data = process_task_result(cli.task, receive_data(bytes))]
       \/ cli' = [cli EXCEPT !.peer = "responded", !.data = StrKO]
       \/ cli' = [cli EXCEPT !.peer = "dropped"]
       \/ cli' = [cli EXCEPT !.peer = "reset"]
       \/ /\ cli.exchanges = 0
          /\ cli' = [cli EXCEPT !.peer = "garbage"]
    /\ UNCHANGED cliRest

\* What pickle.loads does with received bytes that are no pickle of a
\* response: it raises pickle.UnpicklingError (a PickleError), or, depending
\* on the bytes, any other exception: a pickle names a callable and its
\* arguments, and loading it makes the call, so the load can raise whatever
\* a call can raise. The set holds PickleError, OSError (which stands for
\* OSError and its subclasses, socket.error being OSError) and every other
\* exception class of builtins, KeyboardInterrupt and SystemExit among
\* them, which are no Exception.
LoadsFailures ==
    {"PickleError", "OSError", "ArithmeticError", "AssertionError",
     "AttributeError", "BaseException", "BaseExceptionGroup",
     "BufferError", "BytesWarning", "DeprecationWarning", "EOFError",
     "EncodingWarning", "Exception", "ExceptionGroup",
     "FloatingPointError", "FutureWarning", "GeneratorExit",
     "ImportError", "ImportWarning", "IndentationError", "IndexError",
     "KeyError", "KeyboardInterrupt", "LookupError", "MemoryError",
     "ModuleNotFoundError", "NameError", "NotImplementedError",
     "OverflowError", "PendingDeprecationWarning", "RecursionError",
     "ReferenceError", "ResourceWarning", "RuntimeError",
     "RuntimeWarning", "StopAsyncIteration", "StopIteration",
     "SyntaxError", "SyntaxWarning", "SystemError", "SystemExit",
     "TabError", "TypeError", "UnboundLocalError", "UnicodeDecodeError",
     "UnicodeEncodeError", "UnicodeError", "UnicodeTranslateError",
     "UnicodeWarning", "UserWarning", "ValueError", "Warning",
     "ZeroDivisionError"}

\* The end of send_request after pickle.loads raised e on such bytes: the
\* except clause of line 68 returns None for a PickleError and for an
\* OSError, any other exception leaves send_request; the finally closes the
\* connection.
CliGarbage(c, e) ==
    IF e \in {"PickleError", "OSError"}
    THEN CliFail(c, "garbage")
    ELSE [c EXCEPT !.pc = "done", !.failure = "garbage",
                   !.closes = c.closes + 1, !.ret = CliRaised(e)]

\* Variant of client_recv that starts over after a timeout.
client_recv_RetryOnTimeout ==
    /\ cli.pc = "sent"
    /\ \E e \in LoadsFailures : cli' =
         CASE cli.peer = "got" ->
                 IF cli.conns < 2
                 THEN [cli EXCEPT !.pc = "call", !.failure = "timeout",
                                  !.closes = cli.closes + 1]
                 ELSE CliFail(cli, "timeout")
           [] cli.peer = "responded" ->
                 [cli EXCEPT !.pc = "done", !.closes = cli.closes + 1,
                             !.ret = CliReturned(StrResp(cli.data))]
           [] cli.peer = "dropped" ->
                 [cli EXCEPT !.pc = "done", !.failure = "closed",
                             !.closes = cli.closes + 1,
                             !.ret = CliRaised("EOFError")]
           [] cli.peer = "reset" -> CliFail(cli, "reset")
           [] cli.peer = "garbage" -> CliGarbage(cli, e)
    /\ UNCHANGED cliRest

\* Lines 60-64: recv(4096), pickle.loads(response_data), return response;
\* lines 66-72: the except clauses and the finally.  recv times out while the
\* server has not answered; it returns b'' when the server closed the
\* connection, and pickle.loads(b'') raises EOFError, which no except clause
\* names; bytes that are no pickle make pickle.loads raise one of
\* LoadsFailures.
client_recv ==
    /\ cli.pc = "sent"
    /\ \E e \in LoadsFailures : cli' =
         CASE cli.peer = "got" -> CliFail(cli, "timeout")
           [] cli.peer = "responded" ->
                 [cli EXCEPT !.pc = "done", !.closes = cli.closes + 1,
                             !.ret = CliReturned(StrResp(cli.data))]
           [] cli.peer = "dropped" ->
                 [cli EXCEPT !.pc = "done", !.failure = "closed",
                             !.closes = cli.closes + 1,
                             !.ret = CliRaised("EOFError")]
           [] cli.peer = "reset" -> CliFail(cli, "reset")
           [] cli.peer = "garbage" -> CliGarbage(cli, e)
    /\ UNCHANGED cliRest

CliNext ==
    client_connect \/ client_send \/ PeerExchange \/ PeerAnswer \/ client_recv

CliStart ==
    /\ SrvInit /\ RecIdle /\ BindIdle
    /\ CliInit
    /\ codec = [pc |-> "idle"]
    /\ chan = [pc |-> "idle"]

CliSpec == CliStart /\ [][CliNext]_vars

\* ---------------------------------------------------------------------------
\* Claims about the client (CliSpec)

\* C21: one send_request makes at most one connection and sends the task at
\* most once; when a timeout expires it returns None, and nothing is tried
\* again, so the server writes at most one frame to the board for the call.
C21_OneShotNoRetry ==
    /\ cli.conns <= 1
    /\ cli.sends <= 1
    /\ cli.exchanges <= 1
    /\ cli.closes <= 1
    /\ cli.failure = "timeout" =>
          (cli.pc = "done" /\ cli.ret = CliReturned(NoneResp))

\* The call timed out waiting for the response and returned None; the server
\* did the one exchange of the request all the same.
C21_Witness ==
    /\ cli.pc = "done"
    /\ cli.failure = "timeout"
    /\ cli.ret = CliReturned(NoneResp)
    /\ cli.conns = 1 /\ cli.sends = 1
    /\ cli.exchanges = 1

\* C22: every transport failure of send_request (timeout, refused
\* connection, send or receive error, server closing the connection with no
\* response) ends the call with None as its return value, never with an
\* exception.
C22_FailuresReturnNone ==
    (cli.pc = "done" /\ cli.failure # "none") => cli.ret = CliReturned(NoneResp)

\* The server closed the connection with no response and send_request raised.
C22_Witness ==
    /\ cli.pc = "done"
    /\ cli.peer = "dropped"
    /\ cli.failure = "closed"
    /\ cli.ret = CliRaised("EOFError")
    /\ cli.closes = 1

\* ---------------------------------------------------------------------------
\* The binding engine under fair scheduling: the engine always takes its next
\* step; nothing is assumed about when, or whether, the flashing tool exits,
\* nor about the process query ever failing: the poll the engine is sure to
\* take is the one that finds a running process.
BindEngineStep ==
    \/ initialize
    \/ bind_device
    \/ bind_to_port_or_unbound
    \/ WaitPoll(flashing = "running")
    \/ bind_to_bound_port
    \/ ProbeDisconnect
    \/ ProbeConnect
    \/ ProbeWait
    \/ ProbeNext
    \/ SaveLoad
    \/ SaveOpen
    \/ SaveDump
    \/ release_device
    \/ ReleaseSend
    \/ ReleaseRecv
    \/ ReleaseOpen
    \/ ReleaseDump

BindFairSpec == BindSpec /\ WF_vars(BindEngineStep)

\* C31: the wait for the flashing process inside bind_device is bounded:
\* once bind_device has started to wait it leaves the wait, also when the
\* flashing process never exits.
C31_FlashWaitEnds == (bpc = "flash") ~> (bpc # "flash")

\* bind_device polls for the flashing process while it runs.
C31_Witness ==
    /\ bpc = "flash"
    /\ op.kind = "bind"
    /\ flashing = "running"
    /\ bindResult = "none"

\* ---------------------------------------------------------------------------
\* Claims about the order of the probes (BindSpec)

\* The ports, ascending, whose token passes Test.
PortsWith(Test(_)) ==
    SelectSeq([i \in 1 .. Len(relay_port_states) |-> i],
              LAMBDA i : Test(relay_port_states[i]))

\* One probe attempt on port p as the relay sees it: disconnect, connect.
ProbePair(p) ==
    <<Req(RELAY_DISCONNECT_MSG, p, DEVICE_DEFAULT_VALUE),
      Req(RELAY_CONNECT_MSG, p, DEVICE_DEFAULT_VALUE)>>

\* n attempts on each of the ports, one port after the other.
RECURSIVE ProbePlan(_, _, _)
ProbePlan(ports, n, k) ==
    IF ports = <<>> THEN <<>>
    ELSE IF k = 0 THEN ProbePlan(Tail(ports), n, n)
    ELSE ProbePair(Head(ports)) \o ProbePlan(ports, n, k - 1)

MatchPlan == ProbePlan(PortsWith(LAMBDA t : t = hub_value_str), 3, 3)
FreePlan == ProbePlan(PortsWith(LAMBDA t : t = <<"0", "0">>), 1, 1)
OccupiedPlan == ProbePlan(PortsWith(LAMBDA t : t # <<"0", "0">>), 1, 1)

\* Every request of an auto-detect bind_device that finds nothing.
AutoPlan == MatchPlan \o FreePlan \o OccupiedPlan

IsPrefix(s, t) == Len(s) <= Len(t) /\ s = SubSeq(t, 1, Len(s))

AutoBind == op.kind = "bind" /\ op.port = 0

\* C32: the relay requests of an auto-detect bind_device are, at every
\* moment, the beginning of one fixed sequence: disconnect/connect pairs for
\* the ports carrying the device's hub token (3 attempts each), then for the
\* free ports ascending (1 attempt each), then for the occupied ports
\* ascending (1 attempt each); the occupied ports are reached only after the
\* wait for the flashing process; and once a probe has succeeded no further
\* request is sent.
C32_PhasesInOrder ==
    /\ [](AutoBind =>
            /\ IsPrefix(CallReqs, AutoPlan)
            /\ Len(CallReqs) > Len(MatchPlan) + Len(FreePlan) => flashAbsent
            /\ bindResult = "True" =>
                  /\ CallReqs # <<>>
                  /\ CallReqs[Len(CallReqs)].message = RELAY_CONNECT_MSG)
    /\ [][(AutoBind /\ bpc \in {"save", "done"}) => reqLog' = reqLog]_vars

\* An auto-detect bind_device went through a matching port, a free port and
\* the wait, and found the device on the last occupied port.
C32_Witness ==
    /\ AutoBind
    /\ bindResult = "True"
    /\ MatchPlan # <<>>
    /\ FreePlan # <<>>
    /\ flashAbsent
    /\ CallReqs = AutoPlan

\* ---------------------------------------------------------------------------
\* Claims about a failing hardware action (Spec)

\* The hardware action of cur's request raised and the channel is still open.
ActionRaised == cur # 0 /\ envFault /\ serialOpen

\* C33: a request whose hardware action raised while the serial channel
\* stayed open is answered "KO", exactly once (when the peer has gone and
\* send raises, nothing is sent); the task generator is then suspended at
\* its yield and not exhausted (it is exhausted only with the channel
\* closed), and the arbiter closes the connection and goes back to accept,
\* still running, where the next request is dispatched as any other.
C33_FaultIsolated ==
    /\ []((ActionRaised /\ srv = "close")
             => /\ gen = "suspended"
                /\ IF SendRaised
                   THEN sent = <<>> /\ nResp[cur] = 0
                   ELSE /\ sent = StrKO
                        /\ nResp[cur] = 1
                        /\ connSt[cur] = "RESPONDED")
    /\ [](gen = "done" => ~serialOpen)
    /\ [][(ActionRaised /\ srv = "close" /\ srv' # "STOPPED")
             => /\ srv' \in {"close", "accept"}
                /\ running'
                /\ gen' = "suspended"]_vars

\* A known-kind request answered "KO" because the write or the read raised,
\* with the channel open and a later request already waiting.
C33_Witness ==
    /\ ActionRaised
    /\ srv = "close"
    /\ IsKnownTask(payload)
    /\ sent = StrKO
    /\ backlog # <<>>

\* ---------------------------------------------------------------------------
\* Claims about which result a connection is answered with (Spec)

\* The answer that belongs to payload p, given the reply r read for it and
\* whether its hardware action raised.
AnswerFor(p, r, raised) ==
    IF raised \/ ~IsKnownTask(p) THEN StrKO
    ELSE IF p.message = RELAY_GET_STATE_MSG
         THEN PyStr(Slice(split(r, " "), 4, 9))
         ELSE StrOK

\* C34: whatever was answered before, the response sent on a connection is
\* the one that belongs to the task received on that connection and to the
\* reply read during that connection's own exchange: never the generator's
\* initial "KO" for a request that succeeded, never the result an earlier
\* request left in the generator.
C34_AnswerIsOwn ==
    (srv = "close" /\ cur # 0 /\ nResp[cur] > 0)
       => /\ sent = AnswerFor(payload, reply, envFault)
          /\ nResp[cur] = 1
          /\ (IsKnownTask(payload) /\ ~envFault) => frame = TableFrame(payload)

\* A control request is answered "OK" although the generator held the token
\* list of an earlier GET_STATES request when this request was sent to it.
C34_Witness ==
    /\ srv = "read"
    /\ payload.message = RELAY_CONNECT_MSG
    /\ Len(genResp) > 2
    /\ genResp # AnswerFor(payload, reply, FALSE)
    /\ nKnown > 0

\* ---------------------------------------------------------------------------
\* Claims about a client that stays silent (SilentSpec)

\* The steps the arbiter takes on its own. recv() is not among them: it
\* returns only when the client has sent data or closed its end, and
\* _handle_connection sets no timeout on the connection.
ArbiterOwnStep ==
    \/ Start \/ Accept \/ Loads \/ GenInit \/ GenSend
    \/ SerialWrite \/ SerialRead \/ GenYield \/ Respond \/ Close

SilentSpec == Spec /\ WF_vars(ArbiterOwnStep)

\* C35: a connection waiting in the backlog while the arbiter is in recv()
\* on another connection is eventually accepted (or the server has been
\* stopped), whatever the client of that other connection does.
C35_SilentClientHarmless ==
    \A c \in Conns :
        (connSt[c] = "QUEUED" /\ srv = "recv")
            ~> (connSt[c] # "QUEUED" \/ srv = "STOPPED")

\* The arbiter is in recv() on one connection, the channel is open, and
\* another connection is waiting in the backlog.
C35_Witness ==
    /\ srv = "recv"
    /\ cur # 0
    /\ running
    /\ serialOpen
    /\ backlog # <<>>
    /\ payload = NoPayload

\* ---------------------------------------------------------------------------
\* Claims about a request whose client timed out (CliSpec)

\* C36 as stated: when send_request returned None on a timeout, the arbiter
\* performs no hardware exchange for that request.
C36_NoExchangeAfterTimeout ==
    (cli.pc = "done" /\ cli.failure = "timeout") => cli.exchanges = 0

\* C36, amended: a frame is written to the board only for a request whose
\* task the client has sent and that names a known kind, and at most once;
\* an answer other than "KO" to such a request is sent only after that
\* write; a request that was never sent (the connect failed or timed out)
\* reaches no server and gets no exchange. The exchange happens whether or
\* not the client still waits for the response, so a request whose
\* send_request timed out is performed all the same (C36_Witness).
C36_ExchangeOnlyForSentRequest ==
    /\ cli.exchanges > 0 =>
          /\ cli.exchanges = 1
          /\ cli.sends = 1
          /\ cli.peer # "none"
          /\ process_task_frame(cli.task) # <<>>
    /\ (cli.peer = "responded" /\ cli.data # StrKO
           /\ process_task_frame(cli.task) # <<>>) => cli.exchanges = 1
    /\ (cli.pc = "done" /\ cli.sends = 0) => (cli.peer = "none" /\ cli.exchanges = 0)

\* send_request timed out and returned None; afterwards the arbiter took the
\* request from the backlog, did its exchange and answered the closed
\* connection.
C36_Witness ==
    /\ cli.pc = "done"
    /\ cli.failure = "timeout"
    /\ cli.ret = CliReturned(NoneResp)
    /\ cli.peer = "responded"
    /\ cli.exchanges = 1
    /\ cli.data = StrOK

\* ---------------------------------------------------------------------------
\* Claims about disconnects left without their connect (RecSpec, BindSpec)

IsDisconnect(e) ==
    IsReq(e) /\ e.message \in {RELAY_DISCONNECT_MSG, RELAY_DISCONNECT_MSG_SEC}

\* The connect request for the target of disconnect request e.
ConnectFor(e) ==
    Req(IF e.message = RELAY_DISCONNECT_MSG THEN RELAY_CONNECT_MSG
                                            ELSE RELAY_CONNECT_MSG_SEC,
        e.index, e.value)

\* In the requests reqs of an operation, every disconnect is directly
\* followed by the connect for its target; the last request may be a
\* disconnect only while the operation has not ended.
Reconnected(reqs, ended) ==
    \A i \in 1 .. Len(reqs) :
        IsDisconnect(reqs[i]) =>
            IF i < Len(reqs) THEN reqs[i + 1] = ConnectFor(reqs[i]) ELSE ~ended

\* C37: in execute() (both recovery procedures) and in bind_device (the port
\* probes), every disconnect request is followed by the connect request for
\* the same port index or hub value before the next disconnect, and no
\* operation ends with a disconnect as the last request it issued.
C37_DisconnectThenConnect ==
    /\ Reconnected(SelectSeq(evLog, IsReq), result # "none")
    /\ Reconnected(CallReqs, bindResult # "none")

\* execute() ended by the exception of a disconnect request for the device's
\* hub value: no connect was issued for that target.
C37_Witness ==
    /\ rpc = "done"
    /\ result = "raised"
    /\ evLog # <<>>
    /\ LET reqs == SelectSeq(evLog, IsReq)
       IN  /\ reqs # <<>>
           /\ reqs[Len(reqs)].message = RELAY_DISCONNECT_MSG_SEC

\* ---------------------------------------------------------------------------
\* Claims about recovery after a release (RecSpec)

\* The binding file holds, for the serial number, what a successful
\* release_device wrote: (0, p).
ReleasedEntry == store.kind = "entry" /\ store.hub = 0

\* C38: with the entry (0, p) that release_device left in the binding file,
\* execute() never sends a by-index request (so none for port p), and
\* _recover_invalid_device, once it has found the device neither valid nor
\* seen by ADB and consulted the file, returns failure with no relay request
\* sent at all, which execute() returns as its own failure.
C38_ReleasedPortNotCycled ==
    /\ [](ReleasedEntry =>
            /\ IndexReqs(evLog) = <<>>
            /\ rpc \notin {"inv_loop", "inv_connect", "inv_wait"}
            /\ invRet = "False" => (evLog = <<>> /\ result = "False" /\ rpc = "done"))
    /\ [][(ReleasedEntry /\ rpc = "bindings")
             => (invRet' = "False" /\ rpc' = "done" /\ evLog' = <<>>)]_vars

\* The device was not valid and ADB did not see it, the file held (0, 2),
\* and invalid-device recovery failed without a request.
C38_Witness ==
    /\ ReleasedEntry
    /\ store.port = 2
    /\ hub = 0
    /\ rpc = "done"
    /\ invRet = "False"
    /\ result = "False"
    /\ lastRead # "device"
    /\ evLog = <<>>

\* ---------------------------------------------------------------------------
\* Claims about an empty board reply (BindSpec)

\* What the engine parses when the board's reply to the query frame is
\* empty: readall() gave no byte, the server decoded and rendered it, the
\* client parsed the string.
EmptyReplyStates ==
    get_relay_port_states(StrResp(PyStr(get_all_port_states(receive_data(<<>>)))))

\* C39: when the board's reply to the query-states frame was empty, the
\* engine's port states are the empty sequence, and bind_device sends no
\* connect or disconnect request and returns failure, with a resolved or an
\* unresolved hub value.
C39_EmptyReplyNoProbe ==
    (op.kind = "bind" /\ bpc # "init" /\ relay_port_states = EmptyReplyStates)
        => /\ relay_port_states = <<>>
           /\ CallReqs = <<>>
           /\ bindResult \in {"none", "False"}

\* The board's reply was empty, the hub value is unresolved, and auto-detect
\* bind_device probed port 1, found the device there and stored (0, 1).
C39_Witness ==
    /\ op = [kind |-> "bind", port |-> 0, force |-> FALSE]
    /\ hub_value = 0
    /\ relay_port_states = EmptyReplyStates
    /\ relay_port_states = << <<>> >>
    /\ CallReqs = <<Req(RELAY_DISCONNECT_MSG, 1, 0), Req(RELAY_CONNECT_MSG, 1, 0)>>
    /\ bindResult = "True"
    /\ pkl_file.ent["A"] = <<0, 1>>

\* ---------------------------------------------------------------------------
\* Claims about bind_device with an explicit port (BindSpec)

\* C40: bind_device called with an explicit port p returns True only with
\* the binding file naming port p for the device.
C40_ExplicitPortIsBound ==
    (op.kind = "bind" /\ op.port # 0 /\ bindResult = "True")
        => /\ pkl_file.exists
           /\ pkl_file.ent["A"] # NoEntry
           /\ pkl_file.ent["A"][2] = op.port

\* bind_device(port=7, force=True) found the device on port 2, which carries
\* its hub token, stored (26, 2) and returned True; port 7 was never probed.
C40_Witness ==
    /\ op = [kind |-> "bind", port |-> 7, force |-> TRUE]
    /\ bindResult = "True"
    /\ phase = "bonded"
    /\ pkl_file.ent["A"] = <<OwnHub, 2>>
    /\ \A i \in 1 .. Len(CallReqs) : CallReqs[i].index = 2

====
